---- MODULE Spec2Model ----
(***************************************************************************)
(* A model of the SNMP -> MQTT bridge: the per-device poller               *)
(* (internal/service/poller.go), its state store and event fan-out, the    *)
(* MQTT publisher and WebSocket subscribers, and the command handlers that *)
(* issue an SNMP SET and then request an immediate poll.                   *)
(***************************************************************************)
EXTENDS Integers, Sequences, FiniteSets, TLC

(***************************************************************************)
(* Bounds of the model                                                     *)
(***************************************************************************)
\* devicePoller instances (goroutines) ever created in a run
MaxPollers == 2
\* poll cycles one devicePoller may begin in the lifecycle specifications
MaxPollCount == 2
\* poll cycles of the single devicePoller of SpecPoll (reaches the static group)
MaxPollCountLong == 10
\* poll cycles of the single devicePoller of SpecFan (one more than a queue holds)
MaxPollCountFan == 3
\* largest integer an agent answers with
MaxVal == 1
\* capacity of a subscriber queue in the model (the code's 100, scaled down)
SubscriberCap == 2
\* command handlers run in SpecCmd
MaxCmds == 2
\* API lifecycle calls (AddDevice/UpdateDevice/RemoveDevice) of one run
MaxApiCalls == 2
\* paho clients the MQTT Client creates in one run (Connect, then Reconnect)
MaxMqttClients == 2
\* connections the broker link loses in one run
MaxConnLost == 1
\* largest compositeIndex of the outlet mappings that share the composite OID
MaxOutlets == 4
\* variable bindings of one trap packet
MaxVarbinds == 2
\* the raw values of a scaled OID are 0..MaxRaw, 126 and 250
MaxRaw == 3
\* mapping names of up to MaxNameLen characters
MaxNameLen == 3
\* PublishDevice runs MaxPublish times for a device
MaxPublish == 2

(***************************************************************************)
(* Program constants                                                       *)
(***************************************************************************)
\* batchSize := 10 (v2c / v3)
BatchSizeDefault == 10
\* batchSize = 1 (v1)
BatchSizeV1 == 1
\* pollGroups["frequent"]
FrequentInterval == 1
\* pollGroups["static"]
StaticInterval == 10
\* convertPayloadToSNMPValue: the default integer of ON
DefaultOn == 1
\* convertPayloadToSNMPValue: the default integer of OFF
DefaultOff == 2
\* mapping.Scale is a whole number of 1/ScaleDen: 0.0001 is the finest scale
ScaleDen == 10000

DeviceIds == {"d1"}
PollerIds == 1..MaxPollers
SubscriberIds == {"pub", "ws"}
Vals == 0..MaxVal

(***************************************************************************)
(* OIDs are strings in the code; here a sequence of tokens whose first     *)
(* token may be the leading dot.                                           *)
(***************************************************************************)
Dot == "."

\* normalizeOID: strip one leading dot
normalizeOID(oid) ==
    IF Len(oid) > 0 /\ oid[1] = Dot THEN Tail(oid) ELSE oid

\* the name gosnmp gives a returned variable: always with the leading dot
VariableName(oid) == <<Dot>> \o normalizeOID(oid)

sysDescr == <<Dot, "1.3.6.1.2.1.1.1.0">>
sysUpTime == <<Dot, "1.3.6.1.2.1.1.3.0">>
BaseOIDs == {sysDescr, sysUpTime}

(***************************************************************************)
(* Maps (Go map[string]interface{}) are functions on a finite key set.     *)
(***************************************************************************)
EmptyMap == [k \in {} |-> 0]

\* for k, v := range b { a[k] = v }
Merge(a, b) ==
    [k \in (DOMAIN a) \cup (DOMAIN b) |-> IF k \in DOMAIN b THEN b[k] ELSE a[k]]

Put(m, k, v) == [x \in (DOMAIN m) \cup {k} |-> IF x = k THEN v ELSE m[x]]

Lookup(m, k) == IF k \in DOMAIN m THEN m[k] ELSE 0

\* mapping.EnumValues == nil
NoEnum == EmptyMap

(***************************************************************************)
(* Profiles.  Profile 0 is "no profile" (dp.profile == nil).               *)
(***************************************************************************)
PduMappings ==
    << [OID |-> <<Dot, "volt">>, Name |-> "Voltage", PollGroup |-> "static", Scale |-> 0,
        Type |-> "gauge", EnumValues |-> NoEnum],
       [OID |-> <<"cur">>, Name |-> "Total Current", PollGroup |-> "", Scale |-> 0,
        Type |-> "gauge", EnumValues |-> NoEnum],
       [OID |-> <<Dot, "pow">>, Name |-> "Active Power", PollGroup |-> "frequent", Scale |-> 2 * ScaleDen,
        Type |-> "gauge", EnumValues |-> NoEnum] >>

\* a PDU that reports voltage and current every cycle and no power
MeterMappings ==
    << [OID |-> <<Dot, "volt">>, Name |-> "Voltage", PollGroup |-> "frequent", Scale |-> 0,
        Type |-> "gauge", EnumValues |-> NoEnum],
       [OID |-> <<"cur">>, Name |-> "Total Current", PollGroup |-> "", Scale |-> 0,
        Type |-> "gauge", EnumValues |-> NoEnum] >>

\* a profile whose only mapping is sysDescr, written without the leading dot
SysMappings ==
    << [OID |-> <<"1.3.6.1.2.1.1.1.0">>, Name |-> "Description", PollGroup |-> "frequent", Scale |-> 0,
        Type |-> "gauge", EnumValues |-> NoEnum] >>

\* a profile of static information only: the description, every tenth cycle
InfoMappings ==
    << [OID |-> <<Dot, "1.3.6.1.2.1.1.1.0">>, Name |-> "Description", PollGroup |-> "static",
        Scale |-> 0, Type |-> "string", EnumValues |-> NoEnum] >>

Profiles == << PduMappings, SysMappings, MeterMappings, InfoMappings >>
ProfileIds == 0..Len(Profiles)

OIDMappings(profile) == IF profile = 0 THEN <<>> ELSE Profiles[profile]

\* keys of a values map: a mapping name, or the raw name of a variable
NameKey(name) == <<name>>

(***************************************************************************)
(* State                                                                   *)
(***************************************************************************)
VARIABLES
    devices,      \* s.devices: device id -> devicePoller (0: not in the table)
    pollers,      \* the devicePoller records and the position of their goroutines
    states,       \* s.states: device id -> DeviceState
    subscribers,  \* s.subscribers: the list of subscriber queues
    chans,        \* the subscriber queues (buffered channels)
    ctxDone,      \* s.ctx has been cancelled
    stopPc,       \* position of the caller of Stop
    subs,         \* the consumers: MQTT publisher and WebSocket fan-out
    api,          \* the caller of AddDevice / UpdateDevice / RemoveDevice
    cmds,         \* command handlers (MQTT set message, HTTP set request)
    agentVer,     \* per device: number of SETs the SNMP agent has applied
    removed,      \* history: RemoveDevice(id) has returned and id was not re-added
    populated,    \* history: keys written for id since it was most recently added
    afterSet,     \* history: the first event emitted after a successful SET
    mqtt,         \* the MQTT Client, its broker session and the Publisher's context
    sw,           \* one switch entity: its command handler, agent register and state topic
    comp,         \* one poll of a device whose outlets share a composite OID
    traps,        \* the trap receiver: the TrapLog rows it has stored
    ha,           \* Home Assistant discovery: the retained config documents
    hc,           \* Publisher.handleCommand: the SNMP requests of one command
    ps,           \* Publisher.publishState: the messages of one StateUpdateEvent
    reg           \* Publisher.devices and the devices whose discovery was published

\* the variables of the command, composite and trap specifications
aux == << sw, comp, traps, ha, hc, ps, reg >>

vars == << devices, pollers, states, subscribers, chans, ctxDone, stopPc, subs,
           api, cmds, agentVer, removed, populated, afterSet, mqtt, sw, comp, traps, ha, hc,
           ps, reg >>

NoStamp == << 0, 0 >>

NoEvent ==
    [DeviceID |-> "", Stamp |-> NoStamp, Values |-> EmptyMap, Online |-> FALSE,
     seen |-> 0, began |-> 0, read |-> FALSE]

\* a slot of the model that holds no devicePoller yet
NoPoller ==
    [pc |-> "none", dev |-> "", version |-> "v2c", profile |-> 0,
     pollCount |-> 0, missingOIDs |-> {}, stopCh |-> "open", triggerCh |-> 0,
     conn |-> "nil", todo |-> {}, hasValues |-> FALSE, values |-> EmptyMap,
     errors |-> <<>>, ev |-> NoEvent, k |-> 0,
     nGet |-> 0, nUpd |-> 0, nEmit |-> 0, nSeen |-> 0, seen |-> 0, began |-> 0,
     read |-> FALSE, getErr |-> FALSE]

\* s.states has no entry
NoState ==
    [exists |-> FALSE, Online |-> FALSE, LastPoll |-> NoStamp, Errors |-> <<>>,
     Values |-> EmptyMap]

\* &domain.DeviceState{DeviceID: id, Online: false, Values: make(map)}
NewState ==
    [exists |-> TRUE, Online |-> FALSE, LastPoll |-> NoStamp, Errors |-> <<>>,
     Values |-> EmptyMap]

\* make(chan StateUpdateEvent, 100)
NewChan == [buf |-> <<>>, closed |-> FALSE]

Active(p) == pollers[p].pc \notin {"none", "exited"}
InCycle(p) == pollers[p].pc \in {"get", "apply", "emitlock", "emit"}
FreePollers == {p \in PollerIds : pollers[p].pc = "none"}

Min(S) == CHOOSE x \in S : \A y \in S : x <= y

(***************************************************************************)
(* Strings are sequences of one-character strings, so that the string      *)
(* functions of the code (strings.ToUpper, TrimSpace, Split, fmt.Sscanf)   *)
(* work on the characters.                                                 *)
(***************************************************************************)
LowerCase == << "a", "b", "c", "d", "e", "f", "g", "h", "i", "j", "k", "l", "m",
                "n", "o", "p", "q", "r", "s", "t", "u", "v", "w", "x", "y", "z" >>
UpperCase == << "A", "B", "C", "D", "E", "F", "G", "H", "I", "J", "K", "L", "M",
                "N", "O", "P", "Q", "R", "S", "T", "U", "V", "W", "X", "Y", "Z" >>
Digits == << "0", "1", "2", "3", "4", "5", "6", "7", "8", "9" >>

\* the position of character c in a table of characters, 0 when it is not there
IndexOf(c, table) ==
    IF \E i \in 1..Len(table) : table[i] = c
    THEN CHOOSE i \in 1..Len(table) : table[i] = c ELSE 0

\* strings.ToUpper
ToUpper(s) ==
    [i \in 1..Len(s) |->
        IF IndexOf(s[i], LowerCase) > 0 THEN UpperCase[IndexOf(s[i], LowerCase)]
        ELSE s[i]]

\* strings.ToLower
ToLower(s) ==
    [i \in 1..Len(s) |->
        IF IndexOf(s[i], UpperCase) > 0 THEN LowerCase[IndexOf(s[i], UpperCase)]
        ELSE s[i]]

\* strings.EqualFold, on the letters above
EqualFold(a, b) == ToUpper(a) = ToUpper(b)

\* strings.TrimSpace
TrimSpace(s) ==
    LET keep == { i \in 1..Len(s) : s[i] # " " }
    IN  IF keep = {} THEN <<>>
        ELSE SubSeq(s, Min(keep), CHOOSE i \in keep : \A j \in keep : j <= i)

\* strings.Split(s, sep) for a separator of one character
RECURSIVE Split(_, _)
Split(s, sep) ==
    LET at == { i \in 1..Len(s) : s[i] = sep }
    IN  IF at = {} THEN << s >>
        ELSE << SubSeq(s, 1, Min(at) - 1) >> \o Split(SubSeq(s, Min(at) + 1, Len(s)), sep)

\* the decimal value of a sequence of digits
RECURSIVE DecimalValue(_)
DecimalValue(ds) ==
    IF ds = <<>> THEN 0
    ELSE 10 * DecimalValue(SubSeq(ds, 1, Len(ds) - 1)) + IndexOf(ds[Len(ds)], Digits) - 1

\* fmt.Sscanf(s, "%d", &intVal): an optional sign, then the longest run of
\* digits; what follows the digits is left unread; err != nil without a digit
Sscanf(s) ==
    LET signed == Len(s) > 0 /\ s[1] \in {"+", "-"}
        body == IF signed THEN Tail(s) ELSE s
        stop == { i \in 1..Len(body) : IndexOf(body[i], Digits) = 0 }
        n == IF stop = {} THEN Len(body) ELSE Min(stop) - 1
        magnitude == DecimalValue(SubSeq(body, 1, n))
    IN  IF n = 0 THEN [ok |-> FALSE, v |-> 0]
        ELSE [ok |-> TRUE,
              v |-> IF signed /\ s[1] = "-" THEN 0 - magnitude ELSE magnitude]

\* sanitizeEntityID: lower case, ' ', '-' and '.' become '_', and every
\* character that is then not a letter, a digit or '_' is dropped
sanitizeEntityID(name) ==
    LET lower == ToLower(name)
        result == [i \in 1..Len(lower) |->
                      IF lower[i] \in {" ", "-", "."} THEN "_" ELSE lower[i]]
    IN  SelectSeq(result, LAMBDA c : \/ IndexOf(c, LowerCase) > 0
                                     \/ IndexOf(c, Digits) > 0
                                     \/ c = "_")

(***************************************************************************)
(* Values (Go interface{}) carry their dynamic type.                       *)
(***************************************************************************)
IntValue(n) == [t |-> "int", v |-> n]
StrValue(s) == [t |-> "str", v |-> s]
NilValue == [t |-> "nil", v |-> 0]

\* the labels of the enumValues tables
LabelOn == << "O", "n" >>
LabelOff == << "O", "f", "f" >>

(***************************************************************************)
(* The poll cycle: doPoll and its helpers                                  *)
(***************************************************************************)
\* pollGroups[group], "frequent" when the group is empty, 1 when it is unknown
pollGroupInterval(group) ==
    LET g == IF group = "" THEN "frequent" ELSE group
    IN  IF g = "frequent" THEN FrequentInterval
        ELSE IF g = "static" THEN StaticInterval
        ELSE 1

\* getOIDsToPoll: the set of mapping OIDs due in this cycle and not known missing
getOIDsToPoll(dp) ==
    IF dp.profile = 0 THEN {}
    ELSE LET ms == OIDMappings(dp.profile)
         IN  { ms[i].OID : i \in { j \in 1..Len(ms) :
                   /\ dp.pollCount % pollGroupInterval(ms[j].PollGroup) = 0
                   /\ normalizeOID(ms[j].OID) \notin dp.missingOIDs } }

\* doPoll: oids := s.getOIDsToPoll(dp); if len(oids) == 0 { oids = base OIDs }
OidsOfCycle(dp) ==
    LET oids == getOIDsToPoll(dp)
    IN  IF oids = {} THEN BaseOIDs ELSE oids

\* batchSize of doPoll
BatchSize(version) == IF version = "v1" THEN BatchSizeV1 ELSE BatchSizeDefault

\* what an agent may answer for one OID of a successful GET
IntResps(vals) == [t : {"int"}, v : vals]
NullResp == [t |-> "null", v |-> 0]
NoSuchResp == [t |-> "noSuch", v |-> 0]
ErrResp == [t |-> "err", v |-> 0]

\* a v1 agent has no noSuchObject / noSuchInstance exception
Resps(version, answers) ==
    { r \in answers : r.t # "err" /\ (version = "v1" => r.t # "noSuch") }

\* a single GET of the v1 fallback may also fail
SingleResps(answers) == { r \in answers : r.t # "noSuch" } \cup {ErrResp}

\* extractCompositeValue: the field at mapping.CompositeIndex of a string value,
\* as the enumValues label of its integer, as its integer, or as the trimmed text
extractCompositeValue(value, mapping) ==
    IF value.t # "str" THEN value
    ELSE LET separator == IF mapping.CompositeSeparator = <<>> THEN ","
                          ELSE mapping.CompositeSeparator[1]
             parts == Split(value.v, separator)
         IN  IF mapping.CompositeIndex >= Len(parts) THEN NilValue
             ELSE LET partValue == TrimSpace(parts[mapping.CompositeIndex + 1])
                      scanned == Sscanf(partValue)
                  IN  IF ~scanned.ok THEN StrValue(partValue)
                      ELSE IF scanned.v \in DOMAIN mapping.EnumValues
                           THEN StrValue(mapping.EnumValues[scanned.v])
                           ELSE IntValue(scanned.v)

\* strconv.ParseFloat on the strings of the model: a decimal integer that takes
\* the whole string parses, any other string of the model is an error
ParseFloat(s) ==
    LET scanned == Sscanf(s)
        digits == IF s # <<>> /\ s[1] \in {"+", "-"} THEN Tail(s) ELSE s
    IN  [ok |-> scanned.ok /\ \A i \in 1..Len(digits) : IndexOf(digits[i], Digits) > 0,
         v |-> scanned.v]

\* math.Round(a / b) for b > 0: to the nearest integer, halves away from zero
Round(a, b) ==
    IF a >= 0 THEN (2 * a + b) \div (2 * b) ELSE 0 - ((2 * (0 - a) + b) \div (2 * b))

\* a float64 of the model, as a whole number of thousandths
FloatValue(thousandths) == [t |-> "float64", v |-> thousandths]

\* transformValue: the composite field; else, for a non-zero mapping.Scale (a
\* whole number of 1/ScaleDen) and a value of dynamic type int, int64, uint,
\* uint64, float64 or a string that parses, the product rounded to 3 decimals
\* when Scale < 0.01 and to 2 otherwise; else the label of an enum; else the value
transformValue(value, mapping) ==
    IF mapping.Type = "composite_switch" THEN extractCompositeValue(value, mapping)
    ELSE LET parsed == IF value.t = "str" THEN ParseFloat(value.v)
                       ELSE [ok |-> value.t \in {"int", "int64", "uint", "uint64", "float64"},
                             v |-> value.v]
             \* the thousandths of numericValue * Scale are scaled / perThousandth
             scaled == parsed.v * mapping.Scale
             perThousandth == (IF value.t = "float64" THEN 1000 ELSE 1) * (ScaleDen \div 1000)
         IN  IF mapping.Scale # 0 /\ parsed.ok
             THEN IF 100 * mapping.Scale < ScaleDen
                  THEN FloatValue(Round(scaled, perThousandth))
                  ELSE FloatValue(10 * Round(scaled, 10 * perThousandth))
             ELSE IF /\ mapping.Type = "enum"
                     /\ value.t \in {"int", "int64"}
                     /\ value.v \in DOMAIN mapping.EnumValues
                  THEN StrValue(mapping.EnumValues[value.v])
                  ELSE value

\* the writes of doPoll for the variables of one response: values[mapping.Name]
\* for every mapping of the variable's normalized OID, and values[variable.Name]
StoreVariables(values, profile, batch, resp) ==
    LET ms == OIDMappings(profile)
        good == { o \in batch : resp[o].t = "int" }
        named == { i \in 1..Len(ms) :
                     \E o \in good : normalizeOID(ms[i].OID) = normalizeOID(VariableName(o)) }
        src(i) == CHOOSE o \in good :
                     normalizeOID(ms[i].OID) = normalizeOID(VariableName(o))
        byName == [k \in { NameKey(ms[i].Name) : i \in named } |->
                     LET i == CHOOSE j \in named : NameKey(ms[j].Name) = k
                     IN  transformValue(resp[src(i)], ms[i]).v]
        byOid == [k \in { VariableName(o) : o \in good } |->
                     resp[CHOOSE o \in good : VariableName(o) = k].v]
    IN  Merge(Merge(values, byName), byOid)

\* the OIDs doPoll adds to dp.missingOIDs for one response
NewMissing(batch, resp) ==
    { normalizeOID(VariableName(o)) : o \in { x \in batch : resp[x].t = "noSuch" } }

\* fmt.Sscanf(s, "%f", &f) on the strings of the model: the digits, and after a
\* '.' the decimals (three of them count), as thousandths; 0 without a digit
ScanFloat(s) ==
    LET stop == { i \in 1..Len(s) : IndexOf(s[i], Digits) = 0 }
        n == IF stop = {} THEN Len(s) ELSE Min(stop) - 1
        rest == SubSeq(s, n + 1, Len(s))
        after == IF rest # <<>> /\ rest[1] = "." THEN Tail(rest) ELSE <<>>
        stopAfter == { i \in 1..Len(after) : IndexOf(after[i], Digits) = 0 }
        decimals == SubSeq(after, 1, IF stopAfter = {} THEN Len(after)
                                     ELSE Min(stopAfter) - 1)
        three == SubSeq(decimals \o << "0", "0", "0" >>, 1, 3)
    IN  IF n = 0 THEN 0
        ELSE 1000 * DecimalValue(SubSeq(s, 1, n)) + DecimalValue(three)

\* toFloat64: a float64, an int, an int64 or the number a string begins with,
\* as thousandths; 0 for nil and for every other dynamic type
toFloat64(value) ==
    CASE value.t = "float64" -> value.v
      [] value.t \in {"int", "int64"} -> 1000 * value.v
      [] value.t = "str" -> ScanFloat(value.v)
      [] OTHER -> 0

\* values[key], nil when the key is absent
ValueOf(values, key) == IF key \in DOMAIN values THEN values[key] ELSE NilValue

\* calculateDerivedValues: when toFloat64(values["Active Power"]) is 0 and
\* Voltage and Total Current are positive, values["Active Power"] =
\* math.Round(voltage*current*10) / 10
calculateDerivedValues(values) ==
    LET activePower == toFloat64(ValueOf(values, NameKey("Active Power")))
        voltage == toFloat64(ValueOf(values, NameKey("Voltage")))
        current == toFloat64(ValueOf(values, NameKey("Total Current")))
    IN  IF activePower = 0 /\ voltage > 0 /\ current > 0
        THEN Put(values, NameKey("Active Power"),
                 FloatValue(100 * Round(voltage * current, 100000)))
        ELSE values

\* the values of the poller machine are integers: as values of dynamic type
\* int, and back (a derived float64 is a whole number there)
IntValues(values) == [k \in DOMAIN values |-> IntValue(values[k])]
Numbers(values) ==
    [k \in DOMAIN values |->
        IF values[k].t = "float64" THEN values[k].v \div 1000 ELSE values[k].v]

\* calculateDerivedValues on the integers of the poller machine; it leaves the
\* values alone when they have no Voltage (toFloat64(nil) is 0)
DerivedNumbers(values) ==
    IF NameKey("Voltage") \in DOMAIN values
    THEN Numbers(calculateDerivedValues(IntValues(values)))
    ELSE values

\* doPoll up to the first GET: count the poll, connect, choose the OIDs
DoPollBegin(dp, connectOk, ver) ==
    LET c == [dp EXCEPT !.pollCount = @ + 1, !.values = EmptyMap, !.errors = <<>>,
                        !.nGet = 0, !.nUpd = 0, !.nEmit = 0, !.nSeen = 0, !.read = FALSE,
                        !.getErr = FALSE,
                        !.began = ver, !.ev = NoEvent, !.k = 0]
    IN  IF dp.conn = "nil" /\ ~connectOk
        THEN [c EXCEPT !.pc = "apply", !.hasValues = FALSE, !.todo = {},
                       !.errors = <<"connect">>]
        ELSE [c EXCEPT !.pc = "get", !.hasValues = TRUE, !.conn = "open",
                       !.todo = OidsOfCycle(c)]

ConnectResults(dp) == IF dp.conn = "nil" THEN BOOLEAN ELSE {TRUE}

\* the batches the next GET may carry (the order of the OID list is the
\* iteration order of a Go map)
Batches(dp) ==
    LET n == IF Cardinality(dp.todo) < BatchSize(dp.version)
             THEN Cardinality(dp.todo) ELSE BatchSize(dp.version)
    IN  { b \in SUBSET dp.todo : Cardinality(b) = n }

\* after a batch: the next batch, or the end of the loop and the derived values
AfterBatch(c, batch) ==
    LET rest == c.todo \ batch
    IN  IF rest = {}
        THEN [c EXCEPT !.todo = {}, !.pc = "apply",
                       !.values = DerivedNumbers(c.values)]
        ELSE [c EXCEPT !.todo = rest]

\* a cycle that keeps the reading of an earlier cycle instead of reading the agent
SeenAtStale(dp, ver) == dp.seen

\* history: the agent's SET count when the cycle first read the device
SeenAt(dp, ver) == IF dp.read THEN dp.seen ELSE ver

\* a GET that succeeds
GetOk(dp, batch, resp, ver) ==
    AfterBatch([dp EXCEPT !.nGet = @ + 1, !.seen = SeenAt(dp, ver), !.read = TRUE,
                          !.missingOIDs = @ \cup NewMissing(batch, resp),
                          !.values = StoreVariables(@, dp.profile, batch, resp)],
               batch)

\* a GET that fails, v2c / v3: record the error, close the connection
GetErr(dp, batch, ver) ==
    AfterBatch([dp EXCEPT !.nGet = @ + 1, !.getErr = TRUE,
                          !.errors = Append(@, "get"), !.conn = "nil"],
               batch)

\* a GET that fails, v1, and the reconnect fails too
GetErrV1NoConn(dp, batch, ver) ==
    AfterBatch([dp EXCEPT !.nGet = @ + 1, !.getErr = TRUE,
                          !.errors = Append(@, "connect"), !.conn = "nil"],
               batch)

\* a GET that fails, v1: reconnect and ask for each OID of the batch alone
GetErrV1Singles(dp, batch, resp, ver) ==
    AfterBatch([dp EXCEPT !.nGet = @ + 1, !.getErr = TRUE, !.conn = "open",
                          !.seen = IF \E o \in batch : resp[o].t # "err"
                                   THEN SeenAt(dp, ver) ELSE @,
                          !.read = @ \/ \E o \in batch : resp[o].t # "err",
                          !.values = StoreVariables(@, dp.profile, batch, resp)],
               batch)

(***************************************************************************)
(* updateState                                                             *)
(***************************************************************************)
\* an update that would replace state.Values by the values of the cycle
UpdateValuesReplace(old, hasValues, values) ==
    IF hasValues THEN Merge(old, values) ELSE EmptyMap

\* state.Values after "if values != nil { for k, v := range values {
\* state.Values[k] = v } }"
UpdateValues(old, hasValues, values) ==
    IF hasValues THEN Merge(old, values) ELSE old

\* fullValues: a copy of the whole accumulated state.Values
\* an event that carries only the values of this poll
EventValuesDelta(stateValues, values) == values

EventValues(stateValues, values) == stateValues

\* select { case ch <- event: default: } on a queue of capacity SubscriberCap
\* a send that does not look at the room the queue has left
TrySendAlways(buf, event) == Append(buf, event)

TrySend(buf, event) ==
    IF Len(buf) < SubscriberCap THEN Append(buf, event) ELSE buf

\* the DeviceState updateState leaves in s.states[deviceID]
UpdatedState(p, dp, old) ==
    LET state == IF old.exists THEN old ELSE NewState
    IN  [state EXCEPT !.Online = (Len(dp.errors) = 0),
                      !.LastPoll = << p, dp.pollCount >>,
                      !.Errors = dp.errors,
                      !.Values = UpdateValues(@, dp.hasValues, dp.values)]

\* event := StateUpdateEvent{DeviceID, Timestamp, Values: fullValues, Online}
NewEvent(p, dp, state) ==
    [DeviceID |-> dp.dev, Stamp |-> << p, dp.pollCount >>,
     Values |-> EventValues(state.Values, dp.values), Online |-> state.Online,
     seen |-> dp.seen, began |-> dp.began, read |-> dp.read]

(***************************************************************************)
(* The goroutine of one devicePoller: pollDevice                           *)
(***************************************************************************)
SetPoller(p, dp) == pollers' = [pollers EXCEPT ![p] = dp]

OnlyPollers ==
    UNCHANGED << devices, states, subscribers, chans, ctxDone, stopPc, subs, api,
                 cmds, agentVer, removed, populated, afterSet, mqtt, aux >>

BeginCycle(p, dp) ==
    \E ok \in ConnectResults(dp) :
        SetPoller(p, DoPollBegin(dp, ok, agentVer[dp.dev]))

\* the initial poll
PollStart(p) ==
    /\ pollers[p].pc = "start"
    /\ BeginCycle(p, pollers[p])
    /\ OnlyPollers

\* a receive that would leave the trigger in the channel
SelectTriggerKeeps(p, maxPolls) ==
    /\ pollers[p].pc = "select"
    /\ pollers[p].triggerCh = 1
    /\ pollers[p].pollCount < maxPolls
    /\ BeginCycle(p, pollers[p])
    /\ OnlyPollers

\* case <-dp.triggerCh: s.doPoll(dp)
SelectTrigger(p, maxPolls) ==
    /\ pollers[p].pc = "select"
    /\ pollers[p].triggerCh = 1
    /\ pollers[p].pollCount < maxPolls
    /\ BeginCycle(p, [pollers[p] EXCEPT !.triggerCh = 0])
    /\ OnlyPollers

\* case <-ticker.C: s.doPoll(dp)
SelectTick(p, maxPolls) ==
    /\ pollers[p].pc = "select"
    /\ pollers[p].pollCount < maxPolls
    /\ BeginCycle(p, pollers[p])
    /\ OnlyPollers

\* case <-dp.stopCh: close the connection and return
SelectStop(p) ==
    /\ pollers[p].pc = "select"
    /\ pollers[p].stopCh = "closed"
    /\ SetPoller(p, [pollers[p] EXCEPT !.pc = "exited", !.conn = "nil"])
    /\ OnlyPollers

\* case <-s.ctx.Done(): return
SelectCtx(p) ==
    /\ pollers[p].pc = "select"
    /\ ctxDone
    /\ SetPoller(p, [pollers[p] EXCEPT !.pc = "exited"])
    /\ OnlyPollers

\* result, err := dp.client.Get(batchOIDs) with err == nil
Get(p, answers) ==
    /\ pollers[p].pc = "get"
    /\ pollers[p].conn = "open"
    /\ \E batch \in Batches(pollers[p]) :
         \E resp \in [batch -> Resps(pollers[p].version, answers)] :
            SetPoller(p, GetOk(pollers[p], batch, resp, agentVer[pollers[p].dev]))
    /\ OnlyPollers

\* the GET fails, v2c / v3
GetFail(p) ==
    /\ pollers[p].pc = "get"
    /\ pollers[p].version # "v1"
    /\ \E batch \in Batches(pollers[p]) :
         SetPoller(p, GetErr(pollers[p], batch, agentVer[pollers[p].dev]))
    /\ OnlyPollers

\* the GET fails, v1: reconnect, then one GET per OID of the batch
GetFailV1(p, answers) ==
    /\ pollers[p].pc = "get"
    /\ pollers[p].version = "v1"
    /\ \E batch \in Batches(pollers[p]) :
         \/ SetPoller(p, GetErrV1NoConn(pollers[p], batch, agentVer[pollers[p].dev]))
         \/ \E resp \in [batch -> SingleResps(answers)] :
              SetPoller(p, GetErrV1Singles(pollers[p], batch, resp,
                                           agentVer[pollers[p].dev]))
    /\ OnlyPollers

\* updateState, the section under statesMu: merge, then copy for the event
Apply(p) ==
    LET dp == pollers[p]
        state == UpdatedState(p, dp, states[dp.dev])
    IN  /\ dp.pc = "apply"
        /\ states' = [states EXCEPT ![dp.dev] = state]
        /\ SetPoller(p, [dp EXCEPT !.pc = "emitlock", !.ev = NewEvent(p, dp, state),
                                   !.values = EmptyMap, !.errors = <<>>,
                                   !.nUpd = @ + 1])
        /\ populated' = [populated EXCEPT ![dp.dev] =
                            @ \cup (IF dp.hasValues THEN DOMAIN dp.values ELSE {})]
        /\ UNCHANGED << devices, subscribers, chans, ctxDone, stopPc, subs, api,
                        cmds, agentVer, removed, afterSet, mqtt, aux >>

\* updateState: s.subMu.RLock(), the fan-out begins
EmitLock(p) ==
    LET dp == pollers[p]
        d == dp.dev
    IN  /\ dp.pc = "emitlock"
        /\ SetPoller(p, [dp EXCEPT !.pc = "emit", !.k = 1, !.nEmit = @ + 1])
        /\ afterSet' = IF afterSet[d].pending
                       THEN [afterSet EXCEPT ![d] =
                               [pending |-> FALSE, seen |-> dp.ev.seen,
                                ver |-> agentVer[d], read |-> dp.ev.read]]
                       ELSE afterSet
        /\ UNCHANGED << devices, states, subscribers, chans, ctxDone, stopPc, subs,
                        api, cmds, agentVer, removed, populated, mqtt, aux >>

\* one iteration of "for _, ch := range s.subscribers": a non-blocking send
EmitSend(p) ==
    LET dp == pollers[p]
    IN  /\ dp.pc = "emit"
        /\ dp.k <= Len(subscribers)
        /\ LET ch == subscribers[dp.k]
           IN  chans' = [chans EXCEPT ![ch].buf = TrySend(@, dp.ev)]
        /\ SetPoller(p, [dp EXCEPT !.k = @ + 1])
        /\ UNCHANGED << devices, states, subscribers, ctxDone, stopPc, subs, api,
                        cmds, agentVer, removed, populated, afterSet, mqtt, aux >>

\* s.subMu.RUnlock(); after a cycle without errors doPoll calls UpdateLastSeen;
\* it returns to the select of pollDevice
EmitDone(p) ==
    LET dp == pollers[p]
    IN  /\ dp.pc = "emit"
        /\ dp.k > Len(subscribers)
        /\ SetPoller(p, [dp EXCEPT !.pc = "select", !.ev = NoEvent, !.k = 0,
                                   !.nSeen = IF dp.ev.Online THEN 1 ELSE 0])
        /\ OnlyPollers

Emitting == \E p \in PollerIds : pollers[p].pc = "emit"

(***************************************************************************)
(* AddDevice, RemoveDevice, UpdateDevice and their caller                   *)
(***************************************************************************)
\* dp := &devicePoller{...}; the goroutine has not run yet
NewPoller(d, cfg) ==
    [NoPoller EXCEPT !.pc = "start", !.dev = d, !.version = cfg.version,
                     !.profile = cfg.profile]

\* AddDevice: a no-op when the id is in the table; else the devicePoller, the
\* initial DeviceState and the goroutine
AddDevice(d, cfg) ==
    IF devices[d] # 0
    THEN UNCHANGED << devices, pollers, states, removed, populated >>
    ELSE LET p == Min(FreePollers)
         IN  /\ devices' = [devices EXCEPT ![d] = p]
             /\ pollers' = [pollers EXCEPT ![p] = NewPoller(d, cfg)]
             /\ states' = [states EXCEPT ![d] = NewState]
             /\ removed' = [removed EXCEPT ![d] = FALSE]
             /\ populated' = [populated EXCEPT ![d] = {}]

\* RemoveDevice, the section under devicesMu: close(dp.stopCh); delete(s.devices, id)
RemoveFromTable(d) ==
    /\ devices' = [devices EXCEPT ![d] = 0]
    /\ pollers' = IF devices[d] # 0
                  THEN [pollers EXCEPT ![devices[d]].stopCh = "closed"]
                  ELSE pollers

\* close(dp.stopCh) on a channel Stop has closed already: the call panics
\* inside the section under devicesMu and goes no further
DoubleClose(d) == devices[d] # 0 /\ pollers[devices[d]].stopCh = "closed"

ApiIdle ==
    [pc |-> "idle", op |-> "", d |-> "",
     cfg |-> [version |-> "v2c", profile |-> 0, enabled |-> TRUE], calls |-> 0]

\* DeviceHandler.Create -> AddDevice(device), for an enabled device
ApiAddDevice(d, cfg) ==
    /\ api.pc = "idle"
    /\ api.calls < MaxApiCalls
    /\ cfg.enabled
    /\ devices[d] # 0 \/ FreePollers # {}
    /\ AddDevice(d, cfg)
    /\ api' = [api EXCEPT !.calls = @ + 1]
    /\ UNCHANGED << subscribers, chans, ctxDone, stopPc, subs, cmds, agentVer,
                    afterSet, mqtt, aux >>

\* AddDevice up to the repository call: devicesMu.Lock() (released by the
\* deferred Unlock), the id is not in the table, device.ProfileID != "", and
\* s.profileRepo.GetByID is running
AddDeviceGetProfile(d, cfg) ==
    /\ api.pc = "idle"
    /\ api.calls < MaxApiCalls
    /\ cfg.enabled /\ cfg.profile # 0
    /\ devices[d] = 0 /\ FreePollers # {}
    /\ api' = [api EXCEPT !.pc = "add_repo", !.op = "add", !.d = d, !.cfg = cfg,
                           !.calls = @ + 1]
    /\ UNCHANGED << devices, pollers, states, subscribers, chans, ctxDone, stopPc, subs,
                    cmds, agentVer, removed, populated, afterSet, mqtt, aux >>

\* GetByID returns (with err != nil the profile stays nil); AddDevice stores the
\* devicePoller and the state, starts the goroutine and unlocks devicesMu
AddDeviceStore(found) ==
    /\ api.pc = "add_repo"
    /\ AddDevice(api.d, IF found THEN api.cfg ELSE [api.cfg EXCEPT !.profile = 0])
    /\ api' = [ApiIdle EXCEPT !.calls = api.calls]
    /\ UNCHANGED << subscribers, chans, ctxDone, stopPc, subs, cmds, agentVer,
                    afterSet, mqtt, aux >>

\* a caller of AddDevice holds devicesMu
DevicesLocked == api.pc = "add_repo"

\* DeviceHandler.Delete -> RemoveDevice(id), first section
ApiRemoveDevice(d) ==
    /\ api.pc = "idle"
    /\ api.calls < MaxApiCalls
    /\ IF DoubleClose(d)
       THEN /\ api' = [api EXCEPT !.pc = "panic", !.op = "remove", !.d = d,
                                  !.calls = @ + 1]
            /\ UNCHANGED << devices, pollers >>
       ELSE /\ RemoveFromTable(d)
            /\ api' = [api EXCEPT !.pc = "rm_states", !.op = "remove", !.d = d,
                                  !.calls = @ + 1]
    /\ UNCHANGED << states, subscribers, chans, ctxDone, stopPc, subs, cmds,
                    agentVer, removed, populated, afterSet, mqtt, aux >>

\* DeviceHandler.Update -> UpdateDevice(device): RemoveDevice(device.ID), first section
ApiUpdateDevice(d, cfg) ==
    /\ api.pc = "idle"
    /\ api.calls < MaxApiCalls
    /\ FreePollers # {}
    /\ IF DoubleClose(d)
       THEN /\ api' = [api EXCEPT !.pc = "panic", !.op = "update", !.d = d,
                                  !.cfg = cfg, !.calls = @ + 1]
            /\ UNCHANGED << devices, pollers >>
       ELSE /\ RemoveFromTable(d)
            /\ api' = [api EXCEPT !.pc = "rm_states", !.op = "update", !.d = d,
                                  !.cfg = cfg, !.calls = @ + 1]
    /\ UNCHANGED << states, subscribers, chans, ctxDone, stopPc, subs, cmds,
                    agentVer, removed, populated, afterSet, mqtt, aux >>

\* RemoveDevice, the section under statesMu: delete(s.states, id); then it returns
ApiDeleteState ==
    /\ api.pc = "rm_states"
    /\ states' = [states EXCEPT ![api.d] = NoState]
    /\ removed' = [removed EXCEPT ![api.d] = TRUE]
    /\ api' = IF api.op = "update" /\ api.cfg.enabled
              THEN [api EXCEPT !.pc = "upd_add"]
              ELSE [ApiIdle EXCEPT !.calls = api.calls]
    /\ UNCHANGED << devices, pollers, subscribers, chans, ctxDone, stopPc, subs,
                    cmds, agentVer, populated, afterSet, mqtt, aux >>

\* UpdateDevice: if device.Enabled { s.AddDevice(device) }
ApiUpdateAdd ==
    /\ api.pc = "upd_add"
    /\ AddDevice(api.d, api.cfg)
    /\ api' = [ApiIdle EXCEPT !.calls = api.calls]
    /\ UNCHANGED << subscribers, chans, ctxDone, stopPc, subs, cmds, agentVer,
                    afterSet, mqtt, aux >>

(***************************************************************************)
(* Stop                                                                    *)
(***************************************************************************)
\* s.cancel()
StopCancel ==
    /\ stopPc = "idle"
    /\ ctxDone' = TRUE
    /\ stopPc' = "close"
    /\ UNCHANGED << devices, pollers, states, subscribers, chans, subs, api, cmds,
                    agentVer, removed, populated, afterSet, mqtt, aux >>

\* for _, dp := range s.devices { close(dp.stopCh) }
StopClose ==
    /\ stopPc = "close"
    /\ pollers' = [p \in PollerIds |->
                     IF \E d \in DeviceIds : devices[d] = p
                     THEN [pollers[p] EXCEPT !.stopCh = "closed"]
                     ELSE pollers[p]]
    /\ stopPc' = "wait"
    /\ UNCHANGED << devices, states, subscribers, chans, ctxDone, subs, api, cmds,
                    agentVer, removed, populated, afterSet, mqtt, aux >>

\* s.wg.Wait() returns
StopWait ==
    /\ stopPc = "wait"
    /\ \A p \in PollerIds : ~Active(p)
    /\ stopPc' = "subs"
    /\ UNCHANGED << devices, pollers, states, subscribers, chans, ctxDone, subs,
                    api, cmds, agentVer, removed, populated, afterSet, mqtt, aux >>

\* close every subscriber channel; s.subscribers = nil
StopSubs ==
    /\ stopPc = "subs"
    /\ ~Emitting
    /\ chans' = [c \in SubscriberIds |->
                   IF \E i \in 1..Len(subscribers) : subscribers[i] = c
                   THEN [chans[c] EXCEPT !.closed = TRUE]
                   ELSE chans[c]]
    /\ subscribers' = <<>>
    /\ stopPc' = "done"
    /\ UNCHANGED << devices, pollers, states, ctxDone, subs, api, cmds, agentVer,
                    removed, populated, afterSet, mqtt, aux >>

(***************************************************************************)
(* The MQTT Client: Connect, Reconnect, the OnConnect handler, the command *)
(* subscriptions, Disconnect.  c.client is a paho client; the library runs *)
(* the OnConnect handler in a goroutine of its own after each established  *)
(* connection and reconnects by itself after a lost one.                   *)
(***************************************************************************)
MqttIds == 1..MaxMqttClients

\* NewClient: no paho client yet, no handler registered
NewMqtt ==
    [gen |-> 0,                                   \* c.client (0: nil)
     link |-> [g \in MqttIds |-> "none"],         \* status of each paho client
     hPc |-> [g \in MqttIds |-> "idle"],          \* its OnConnect handler goroutine
     hTodo |-> [g \in MqttIds |-> {}],            \* resubscribe: ids still to subscribe
     connected |-> FALSE,                         \* c.connected
     handlers |-> {},                             \* c.handlers
     brokerSubs |-> [g \in MqttIds |-> {}],       \* <prefix>/<id>/+/set subscriptions
     status |-> "none",                           \* retained <prefix>/bridge/status
     onlineN |-> [g \in MqttIds |-> 0],           \* history: "online" per connection
     fresh |-> [g \in MqttIds |-> FALSE],         \* history: handler of this connection not done
     losses |-> 0,
     op |-> [pc |-> "idle", d |-> ""],            \* caller of Subscribe/UnsubscribeCommands
     unsubbed |-> {},                             \* history: UnsubscribeCommands returned
     lastCmd |-> "none",                          \* what the callback did with the last command
     lateDispatch |-> FALSE,                      \* history: a command dispatched after it
     pubCtx |-> FALSE,                            \* Publisher.ctx is cancelled
     mainPc |-> "run",                            \* main: position in the shutdown
     offlineSent |-> FALSE,                       \* history: Disconnect published offline
     lateState |-> FALSE]                         \* history: a state published after it

\* c.client.IsConnected(): connected, or reconnecting with AutoReconnect
IsConnected(m) == m.gen # 0 /\ m.link[m.gen] \in {"up", "down"}

\* the connection of the current paho client carries packets
LinkUp(m) == m.gen # 0 /\ m.link[m.gen] = "up"

\* a connection of paho client g is established: go OnConnect(client)
Established(m, g) ==
    [m EXCEPT !.link[g] = "up", !.hPc[g] = "pending", !.onlineN[g] = 0,
              !.fresh[g] = TRUE, !.brokerSubs[g] = {}]

\* Client.Connect: c.client = mqtt.NewClient(opts); c.client.Connect()
ConnectClient(m, ok) ==
    LET g == m.gen + 1
        c == [m EXCEPT !.gen = g]
    IN  IF ok THEN Established(c, g) ELSE [c EXCEPT !.link[g] = "closed"]

\* c.client.Disconnect(250): a clean disconnect, the broker drops the session
DisconnectClient(m) ==
    IF IsConnected(m)
    THEN [m EXCEPT !.link[m.gen] = "closed", !.brokerSubs[m.gen] = {}]
    ELSE m

OnlyMqtt ==
    UNCHANGED << devices, pollers, states, subscribers, chans, ctxDone, stopPc, subs,
                 api, cmds, agentVer, removed, populated, afterSet, aux >>

\* main: mqttClient.Connect() at startup
MqttConnect ==
    /\ mqtt.gen = 0
    /\ \E ok \in BOOLEAN : mqtt' = ConnectClient(mqtt, ok)
    /\ OnlyMqtt

\* SettingHandler.ReconnectMQTT -> Client.Reconnect(cfg)
MqttReconnect ==
    /\ mqtt.gen # 0
    /\ mqtt.gen < MaxMqttClients
    /\ \E ok \in BOOLEAN :
         mqtt' = ConnectClient([DisconnectClient(mqtt) EXCEPT !.connected = FALSE], ok)
    /\ OnlyMqtt

\* the connection is lost: the broker publishes the will, the session is gone
\* (the ConnectionLost handler clears c.connected)
MqttLost ==
    /\ LinkUp(mqtt)
    /\ mqtt.losses < MaxConnLost
    /\ mqtt' = [mqtt EXCEPT !.link[mqtt.gen] = "down", !.brokerSubs[mqtt.gen] = {},
                            !.status = "offline", !.connected = FALSE,
                            !.losses = @ + 1]
    /\ OnlyMqtt

\* the library reconnects by itself
MqttAutoReconnect(g) ==
    /\ mqtt.link[g] = "down"
    /\ mqtt.hPc[g] = "idle"
    /\ mqtt' = Established(mqtt, g)
    /\ OnlyMqtt

\* Client.Publish of the bridge status through c.client
PublishStatus(m, payload) ==
    IF LinkUp(m)
    THEN [m EXCEPT !.status = payload,
                   !.onlineN[m.gen] = IF payload = "online" THEN @ + 1 ELSE @]
    ELSE m

\* OnConnect handler: c.connected = true; c.Publish(status, "online", true);
\* then resubscribe takes handlersMu.RLock
OnConnectOnline(g) ==
    /\ mqtt.hPc[g] = "pending"
    /\ mqtt' = [PublishStatus([mqtt EXCEPT !.connected = TRUE], "online")
                  EXCEPT !.hPc[g] = "resub", !.hTodo[g] = mqtt.handlers]
    /\ OnlyMqtt

\* resubscribe: c.client.Subscribe(topic, 0, callback) for one id of c.handlers
OnConnectResubscribe(g, d) ==
    /\ mqtt.hPc[g] = "resub"
    /\ d \in mqtt.hTodo[g]
    /\ mqtt' = [mqtt EXCEPT !.hTodo[g] = @ \ {d},
                            !.brokerSubs = IF LinkUp(mqtt)
                                           THEN [@ EXCEPT ![mqtt.gen] = @ \cup {d}]
                                           ELSE @]
    /\ OnlyMqtt

\* resubscribe returns: RUnlock
OnConnectDone(g) ==
    /\ mqtt.hPc[g] = "resub"
    /\ mqtt.hTodo[g] = {}
    /\ mqtt' = [mqtt EXCEPT !.hPc[g] = "idle", !.fresh[g] = FALSE]
    /\ OnlyMqtt

\* some goroutine holds handlersMu.RLock
HandlersRLocked == \E g \in MqttIds : mqtt.hPc[g] = "resub"

\* SubscribeCommands: c.handlers[deviceID] = handler under handlersMu.Lock
SubscribeCommandsStore(d) ==
    /\ mqtt.op.pc = "idle"
    /\ mqtt.gen # 0
    /\ ~HandlersRLocked
    /\ mqtt' = [mqtt EXCEPT !.handlers = @ \cup {d}, !.unsubbed = @ \ {d},
                            !.op = [pc |-> "sub", d |-> d]]
    /\ OnlyMqtt

\* SubscribeCommands: c.Subscribe(topic, callback), then it returns
SubscribeCommandsSend ==
    /\ mqtt.op.pc = "sub"
    /\ mqtt' = [mqtt EXCEPT !.op = [pc |-> "idle", d |-> ""],
                            !.brokerSubs = IF LinkUp(mqtt)
                                           THEN [@ EXCEPT ![mqtt.gen] = @ \cup {mqtt.op.d}]
                                           ELSE @]
    /\ OnlyMqtt

\* UnsubscribeCommands: c.client.Unsubscribe(topic)
UnsubscribeCommandsSend(d) ==
    /\ mqtt.op.pc = "idle"
    /\ mqtt.gen # 0
    /\ mqtt' = [mqtt EXCEPT !.op = [pc |-> "unsub", d |-> d],
                            !.brokerSubs = IF LinkUp(mqtt)
                                           THEN [@ EXCEPT ![mqtt.gen] = @ \ {d}]
                                           ELSE @]
    /\ OnlyMqtt

\* UnsubscribeCommands: delete(c.handlers, deviceID) under handlersMu.Lock,
\* then it returns
UnsubscribeCommandsDelete ==
    /\ mqtt.op.pc = "unsub"
    /\ ~HandlersRLocked
    /\ mqtt' = [mqtt EXCEPT !.handlers = @ \ {mqtt.op.d},
                            !.unsubbed = @ \cup {mqtt.op.d},
                            !.op = [pc |-> "idle", d |-> ""]]
    /\ OnlyMqtt

\* a set message for d arrives: the callback looks d up in c.handlers
CommandArrives(d) ==
    /\ LinkUp(mqtt)
    /\ d \in mqtt.brokerSubs[mqtt.gen]
    /\ mqtt' = [mqtt EXCEPT !.lastCmd = IF d \in mqtt.handlers
                                        THEN "dispatched" ELSE "dropped",
                            !.lateDispatch = @ \/ (d \in mqtt.handlers
                                                    /\ d \in mqtt.unsubbed)]
    /\ OnlyMqtt

(***************************************************************************)
(* Subscribe and the two consumers of the event queues                     *)
(***************************************************************************)
SubIdle == [pc |-> "off", ev |-> NoEvent]

\* Subscribe: ch := make(chan StateUpdateEvent, 100); append under subMu.Lock
Subscribe(c) ==
    /\ subs[c].pc = "off"
    /\ ~Emitting
    /\ chans' = [chans EXCEPT ![c] = NewChan]
    /\ subscribers' = Append(subscribers, c)
    /\ subs' = [subs EXCEPT ![c].pc = "recv"]
    /\ UNCHANGED << devices, pollers, states, ctxDone, stopPc, api, cmds, agentVer,
                    removed, populated, afterSet, mqtt, aux >>

\* Publisher.calculatePowerIfNeeded: Active Power is zero when it is absent, a
\* float64 or int 0, or the string "0" or ""; then, for a positive Voltage and
\* Total Current, values["Active Power"] = float64(int(voltage*current*10)) / 10,
\* written in place
calculatePowerIfNeeded(values) ==
    LET hasPower == NameKey("Active Power") \in DOMAIN values
        activePower == ValueOf(values, NameKey("Active Power"))
        powerIsZero == IF ~hasPower THEN TRUE
                       ELSE IF activePower.t \in {"float64", "int"} THEN activePower.v = 0
                       ELSE IF activePower.t = "str"
                            THEN activePower.v = << "0" >> \/ activePower.v = <<>>
                       ELSE FALSE
        voltage == toFloat64(ValueOf(values, NameKey("Voltage")))
        current == toFloat64(ValueOf(values, NameKey("Total Current")))
    IN  IF powerIsZero /\ voltage > 0 /\ current > 0
        THEN Put(values, NameKey("Active Power"),
                 FloatValue(100 * ((voltage * current) \div 100000)))
        ELSE values

\* event.Values is a Go map: every copy of the event shares it
WithValues(ev, stamp, values) ==
    IF ev.Stamp = stamp THEN [ev EXCEPT !.Values = values] ELSE ev

WriteBuf(buf, stamp, values) ==
    [i \in 1..Len(buf) |-> WithValues(buf[i], stamp, values)]

\* Publisher.handleEvents: receive one event; publishState returns at once when
\* the client is not connected or the device has no registered profile
PubRecv ==
    /\ subs["pub"].pc = "recv"
    /\ Len(chans["pub"].buf) > 0
    /\ chans' = [chans EXCEPT !["pub"].buf = Tail(@)]
    /\ \E usable \in BOOLEAN :
         subs' = [subs EXCEPT !["pub"] =
                    IF usable THEN [pc |-> "calc", ev |-> Head(chans["pub"].buf)]
                    ELSE [pc |-> "recv", ev |-> NoEvent]]
    /\ UNCHANGED << devices, pollers, states, subscribers, ctxDone, stopPc, api,
                    cmds, agentVer, removed, populated, afterSet, mqtt, aux >>

\* publishState: p.calculatePowerIfNeeded(event.Values)
PubCalc ==
    LET ev == subs["pub"].ev
        values == Numbers(calculatePowerIfNeeded(IntValues(ev.Values)))
    IN  /\ subs["pub"].pc = "calc"
        /\ subs' = [c \in SubscriberIds |->
                      IF c = "pub" THEN [pc |-> "publish", ev |-> WithValues(ev, ev.Stamp, values)]
                      ELSE [subs[c] EXCEPT !.ev = WithValues(@, ev.Stamp, values)]]
        /\ chans' = [c \in SubscriberIds |->
                       [chans[c] EXCEPT !.buf = WriteBuf(@, ev.Stamp, values)]]
        /\ pollers' = [p \in PollerIds |->
                         [pollers[p] EXCEPT !.ev = WithValues(@, ev.Stamp, values)]]
        /\ UNCHANGED << devices, states, subscribers, ctxDone, stopPc, api, cmds,
                        agentVer, removed, populated, afterSet, mqtt, aux >>

\* publishState: the entity states and the full state are published
PubPublish ==
    /\ subs["pub"].pc = "publish"
    /\ subs' = [subs EXCEPT !["pub"] = [pc |-> "recv", ev |-> NoEvent]]
    /\ mqtt' = [mqtt EXCEPT !.lateState = @ \/ (LinkUp(mqtt) /\ mqtt.offlineSent)]
    /\ UNCHANGED << devices, pollers, states, subscribers, chans, ctxDone, stopPc,
                    api, cmds, agentVer, removed, populated, afterSet, aux >>

\* handleEvents: case <-p.ctx.Done(), or the queue is closed and drained
PubExit ==
    /\ subs["pub"].pc = "recv"
    /\ mqtt.pubCtx \/ (chans["pub"].closed /\ Len(chans["pub"].buf) = 0)
    /\ subs' = [subs EXCEPT !["pub"] = [pc |-> "exited", ev |-> NoEvent]]
    /\ UNCHANGED << devices, pollers, states, subscribers, chans, ctxDone, stopPc,
                    api, cmds, agentVer, removed, populated, afterSet, mqtt, aux >>

\* subscribeToPollerEvents: receive one event, json.Marshal begins to read it
WsRecv ==
    /\ subs["ws"].pc = "recv"
    /\ Len(chans["ws"].buf) > 0
    /\ chans' = [chans EXCEPT !["ws"].buf = Tail(@)]
    /\ subs' = [subs EXCEPT !["ws"] = [pc |-> "marshal", ev |-> Head(chans["ws"].buf)]]
    /\ UNCHANGED << devices, pollers, states, subscribers, ctxDone, stopPc, api,
                    cmds, agentVer, removed, populated, afterSet, mqtt, aux >>

\* json.Marshal returns; the message goes to the broadcast channel
WsMarshal ==
    /\ subs["ws"].pc = "marshal"
    /\ subs' = [subs EXCEPT !["ws"] = [pc |-> "recv", ev |-> NoEvent]]
    /\ UNCHANGED << devices, pollers, states, subscribers, chans, ctxDone, stopPc,
                    api, cmds, agentVer, removed, populated, afterSet, mqtt, aux >>

(***************************************************************************)
(* Command handlers: Publisher.handleCommand and CommandHandler.SetValue   *)
(***************************************************************************)
CmdIds == 1..MaxCmds

CmdIdle == [pc |-> "idle", dev |-> "", setOk |-> FALSE, triggered |-> FALSE]

\* a TriggerPoll that finds no poller to signal
TriggerPollSkipped(d) == pollers

\* TriggerPoll: a non-blocking send on the trigger channel of the device's poller
TriggerPoll(d) ==
    IF devices[d] # 0
    THEN [pollers EXCEPT ![devices[d]].triggerCh = 1]
    ELSE pollers

\* the handler runs up to the SNMP SET, which the agent applies
CmdSetOk(c, d) ==
    /\ cmds[c].pc = "idle"
    /\ cmds' = [cmds EXCEPT ![c] = [pc |-> "set_ok", dev |-> d,
                                    setOk |-> TRUE, triggered |-> FALSE]]
    /\ agentVer' = [agentVer EXCEPT ![d] = @ + 1]
    /\ afterSet' = [afterSet EXCEPT ![d].pending = TRUE]
    /\ UNCHANGED << devices, pollers, states, subscribers, chans, ctxDone, stopPc,
                    subs, api, removed, populated, mqtt, aux >>

\* the SET fails (or the command is dropped before it): log and return
CmdSetFail(c, d) ==
    /\ cmds[c].pc = "idle"
    /\ cmds' = [cmds EXCEPT ![c] = [pc |-> "returned", dev |-> d,
                                    setOk |-> FALSE, triggered |-> FALSE]]
    /\ UNCHANGED << devices, pollers, states, subscribers, chans, ctxDone, stopPc,
                    subs, api, agentVer, removed, populated, afterSet, mqtt, aux >>

\* after the SET: TriggerPoll(deviceID), then the handler returns (RespondOK)
CmdTrigger(c) ==
    /\ cmds[c].pc = "set_ok"
    /\ pollers' = TriggerPoll(cmds[c].dev)
    /\ cmds' = [cmds EXCEPT ![c].pc = "returned", ![c].triggered = TRUE]
    /\ UNCHANGED << devices, states, subscribers, chans, ctxDone, stopPc, subs, api,
                    agentVer, removed, populated, afterSet, mqtt, aux >>

(***************************************************************************)
(* One switch entity from command to state topic: Publisher.handleCommand  *)
(* converts the payload and sends the SET, the device is polled, and       *)
(* Publisher.publishState publishes the entity's state.  The agent is a    *)
(* register that answers a GET with the value of the last SET it applied.  *)
(***************************************************************************)
PayloadOn == << "O", "N" >>
PayloadOff == << "O", "F", "F" >>

OutletName == << "O", "u", "t", "l", "e", "t", " ", "1" >>

\* the switch mappings of the model: haComponent = switch, not composite, with
\* and without enumValues, writeOID and the writable flag
SwitchMappings ==
    { [OID |-> << Dot, "outletState" >>, Name |-> OutletName, PollGroup |-> "frequent",
       Scale |-> 0, Type |-> IF e = NoEnum THEN "integer" ELSE "enum", EnumValues |-> e,
       HAComponent |-> "switch", Writable |-> w, WriteOID |-> wo] :
         e \in { NoEnum,
                 (1 :> LabelOn) @@ (2 :> LabelOff),
                 (0 :> LabelOff) @@ (1 :> LabelOn),
                 (1 :> << "o", "n" >>) @@ (2 :> << "O", "F", "F" >>),
                 (3 :> LabelOn),
                 (1 :> LabelOn) @@ (3 :> PayloadOn) @@ (2 :> LabelOff),
                 (1 :> << "U", "p" >>) @@ (2 :> << "D", "o", "w", "n" >>) },
         w \in BOOLEAN,
         wo \in { <<>>, << Dot, "outletCtl" >> } }

\* a conversion that knows the default integers only
convertPayloadToSNMPValueDefaults(payload, mapping) ==
    IF ToUpper(payload) = PayloadOn THEN {IntValue(DefaultOn)} ELSE {IntValue(DefaultOff)}

\* convertPayloadToSNMPValue: the values it may return, or an error.  For
\* haComponent = switch the integer of a key the loop over mapping.EnumValues
\* finds (a Go map is iterated in any order), else the defaults; for select
\* the key of a label that EqualFolds the payload, else an error; for number
\* the integer Sscanf reads, else an error; otherwise the payload as a string
convertPayloadToSNMPValue(payload, mapping) ==
    LET payloadUpper == ToUpper(payload)
        found == { k \in DOMAIN mapping.EnumValues :
                     \/ EqualFold(mapping.EnumValues[k], LabelOn) /\ payloadUpper = PayloadOn
                     \/ EqualFold(mapping.EnumValues[k], LabelOff) /\ payloadUpper = PayloadOff }
        labelled == { k \in DOMAIN mapping.EnumValues :
                        EqualFold(mapping.EnumValues[k], payload) }
        val == Sscanf(payload)
    IN  IF mapping.HAComponent = "switch"
        THEN IF found # {} THEN { IntValue(k) : k \in found }
             ELSE IF payloadUpper = PayloadOn THEN {IntValue(DefaultOn)}
                  ELSE {IntValue(DefaultOff)}
        ELSE IF mapping.HAComponent = "select"
        THEN IF labelled # {} THEN { IntValue(k) : k \in labelled }
             ELSE {[t |-> "error", v |-> 0]}
        ELSE IF mapping.HAComponent = "number"
        THEN IF val.ok THEN {IntValue(val.v)} ELSE {[t |-> "error", v |-> 0]}
        ELSE {StrValue(payload)}

\* the decimal digits of a natural number
RECURSIVE FormatNat(_)
FormatNat(n) ==
    IF n < 10 THEN << Digits[n + 1] >>
    ELSE FormatNat(n \div 10) \o << Digits[(n % 10) + 1] >>

\* fmt.Sprintf("%v", value)
Sprintf(value) ==
    IF value.t = "str" THEN value.v
    ELSE IF value.t = "nil" THEN << "<", "n", "i", "l", ">" >>
    ELSE IF value.v < 0 THEN << "-" >> \o FormatNat(0 - value.v)
    ELSE FormatNat(value.v)

\* a conversion that takes every number but 0 for ON
convertToSwitchValueNonZero(value) ==
    IF \/ ToLower(Sprintf(value)) \in { << "o", "n" >>, << "1" >>, << "t", "r", "u", "e" >> }
       \/ (value.t = "int" /\ value.v # 0)
    THEN PayloadOn ELSE PayloadOff

\* convertToSwitchValue: "on", "1" and "true" in any case are ON
convertToSwitchValue(value) ==
    IF ToLower(Sprintf(value)) \in { << "o", "n" >>, << "1" >>, << "t", "r", "u", "e" >> }
    THEN PayloadOn ELSE PayloadOff

\* before the scenario is set up
NoSwitch ==
    [pc |-> "none", device |-> [ID |-> "", Community |-> "", WriteCommunity |-> ""],
     mapping |-> 0, agent |-> NilValue, entity |-> <<>>, payload |-> <<>>,
     snmpValue |-> 0, sets |-> <<>>, setOk |-> FALSE, triggered |-> FALSE,
     lastEntity |-> <<>>,
     lastSet |-> <<>>, prevSet |-> <<>>, prevPub |-> <<>>,
     values |-> [fresh |-> FALSE, value |-> NilValue, current |-> FALSE],
     topic |-> [has |-> FALSE, topic |-> <<>>, payload |-> <<>>, retained |-> FALSE,
                current |-> FALSE]]

\* the poller, its consumers and the MQTT client are left alone
OnlyAux ==
    UNCHANGED << devices, pollers, states, subscribers, chans, ctxDone, stopPc, subs,
                 api, cmds, agentVer, removed, populated, afterSet, mqtt >>

\* a step of the switch, the composite poll or the trap receiver
OnlyOld == OnlyAux /\ UNCHANGED << ha, hc, ps, reg >>


\* handleCommand up to the SET: find the mapping of the entity, refuse a mapping
\* that is not writable, convert the payload
SwHandleCommand(entityID, payload) ==
    /\ sw.pc = "idle"
    /\ LET found == sanitizeEntityID(sw.mapping.Name) = entityID
           c == [sw EXCEPT !.entity = entityID, !.payload = payload, !.sets = <<>>,
                           !.setOk = FALSE, !.triggered = FALSE]
       IN  IF ~found \/ ~sw.mapping.Writable
           THEN sw' = c
           ELSE \E v \in convertPayloadToSNMPValue(TrimSpace(payload), sw.mapping) :
                    sw' = [c EXCEPT !.pc = "set", !.snmpValue = v.v]
    /\ OnlyOld /\ UNCHANGED << comp, traps >>

\* sendSNMPSet: one Set of an Integer PDU to writeOID (mapping.OID when it is
\* empty) on a client that createSNMPClientForWrite gave the write community
\* (the community when there is none); the agent applies a SET that succeeds
SwSendSNMPSet(ok) ==
    /\ sw.pc = "set"
    /\ LET writeOID == IF sw.mapping.WriteOID = <<>> THEN sw.mapping.OID
                       ELSE sw.mapping.WriteOID
           community == IF sw.device.WriteCommunity # "" THEN sw.device.WriteCommunity
                        ELSE sw.device.Community
           pdu == [oid |-> writeOID, community |-> community,
                   value |-> IntValue(sw.snmpValue)]
           c == [sw EXCEPT !.sets = Append(@, pdu)]
       IN  IF ok
           THEN sw' = [c EXCEPT !.pc = "trigger", !.agent = pdu.value, !.setOk = TRUE,
                                !.lastEntity = sw.entity,
                                !.prevSet = sw.lastSet,
                                !.lastSet = ToUpper(TrimSpace(sw.payload)),
                                !.prevPub = IF sw.topic.current THEN sw.topic.payload
                                            ELSE <<>>,
                                !.values.current = FALSE, !.topic.current = FALSE]
           ELSE sw' = [c EXCEPT !.pc = "idle"]
    /\ OnlyOld /\ UNCHANGED << comp, traps >>

\* handleCommand after a SET that succeeded: p.poller.TriggerPoll(deviceID)
SwTriggerPoll ==
    /\ sw.pc = "trigger"
    /\ sw' = [sw EXCEPT !.pc = "idle", !.triggered = TRUE]
    /\ OnlyOld /\ UNCHANGED << comp, traps >>

\* one poll of the device (tick or trigger): GET of mapping.OID, transformValue
SwPoll ==
    /\ sw.pc # "none"
    /\ sw' = [sw EXCEPT !.values = [fresh |-> TRUE,
                                 value |-> transformValue(sw.agent, sw.mapping),
                                 current |-> TRUE]]
    /\ OnlyOld /\ UNCHANGED << comp, traps >>

\* publishState for the event of the poll: nothing while the client is not
\* connected, else the retained entity state on <prefix>/<deviceId>/<entityId>/state
SwPublishState(connected) ==
    /\ sw.values.fresh
    /\ sw' = [sw EXCEPT
                !.values.fresh = FALSE,
                !.topic = IF ~connected THEN @
                          ELSE [has |-> TRUE,
                                topic |-> << "snmp-bridge", sw.device.ID,
                                             sanitizeEntityID(sw.mapping.Name), "state" >>,
                                payload |-> IF sw.mapping.HAComponent = "switch"
                                            THEN convertToSwitchValue(sw.values.value)
                                            ELSE Sprintf(sw.values.value),
                                retained |-> TRUE,
                                current |-> sw.values.current]]
    /\ OnlyOld /\ UNCHANGED << comp, traps >>

(***************************************************************************)
(* One poll of a device whose outlets share one composite OID: the loop of *)
(* doPoll over the variables of the response and over the mappings of the  *)
(* variable's OID.                                                         *)
(***************************************************************************)
CompositeOID == << Dot, "1.3.6.1.4.1.17420.1.2.9.1.13.0" >>
OffOn == (0 :> LabelOff) @@ (1 :> LabelOn)

\* "Outlet <i+1> State", compositeIndex i, for i = 0 .. MaxOutlets
CompositeMappings(separator, enumValues) ==
    [i \in 1..(MaxOutlets + 1) |->
        [OID |-> CompositeOID,
         Name |-> << "Outlet ", Digits[i + 1], " State" >>, PollGroup |-> "frequent", Scale |-> 0,
         Type |-> "composite_switch", EnumValues |-> enumValues,
         HAComponent |-> "switch", Writable |-> TRUE, WriteOID |-> <<>>,
         CompositeIndex |-> i - 1, CompositeSeparator |-> separator]]

\* "1,0,1,-1"
RawOutlets == << "1", ",", "0", ",", "1", ",", "-", "1" >>

\* the strings the agent may answer for the composite OID
RawStrings ==
    { RawOutlets,
      << "1", ",", "0", ",", "1" >>,
      << "0", ",", "1", ",", "0", ",", "1", ",", "1" >>,
      << "1", ";", "0", ";", "1", ";", "-", "1" >>,
      << "1", ",", " ", "0", " ", ",", "x", ",", "1", "2" >>,
      << "2", ",", "1", "x", ",", ",", "-" >>,
      <<>> }

NoComp == [pc |-> "none", mappings |-> <<>>, raw |-> NilValue, i |-> 0,
           values |-> EmptyMap]

\* parseValue: a Null variable gives nil, an OctetString its string
parseValue(resp) == IF resp.t = "null" THEN NilValue ELSE resp

\* doPoll: values := make(map); the GET returns the variable of the composite OID;
\* a nil value is skipped
CompGet(resp) ==
    /\ comp.pc = "get"
    /\ comp' = [comp EXCEPT !.raw = parseValue(resp), !.values = EmptyMap, !.i = 1,
                            !.pc = IF parseValue(resp).t = "nil" THEN "done" ELSE "apply"]
    /\ OnlyOld /\ UNCHANGED << sw, traps >>

\* for _, mapping := range mappings { values[mapping.Name] = transformValue(...) }
CompTransform ==
    /\ comp.pc = "apply"
    /\ comp.i <= Len(comp.mappings)
    /\ comp' = [comp EXCEPT
                  !.values = Put(@, NameKey(comp.mappings[comp.i].Name),
                                 transformValue(comp.raw, comp.mappings[comp.i])),
                  !.i = @ + 1]
    /\ OnlyOld /\ UNCHANGED << sw, traps >>

\* values[variable.Name] = value
CompStoreRaw ==
    /\ comp.pc = "apply"
    /\ comp.i > Len(comp.mappings)
    /\ comp' = [comp EXCEPT !.values = Put(@, VariableName(CompositeOID), comp.raw),
                            !.pc = "done"]
    /\ OnlyOld /\ UNCHANGED << sw, traps >>

\* the next cycle of the poll loop
CompNextPoll ==
    /\ comp.pc = "done"
    /\ comp' = [comp EXCEPT !.pc = "get"]
    /\ OnlyOld /\ UNCHANGED << sw, traps >>

(***************************************************************************)
(* The trap receiver: TrapReceiver.handleTrap for one packet               *)
(***************************************************************************)
snmpTrapOID == ".1.3.6.1.6.3.1.1.4.1.0"
upsOnBattery == ".1.3.6.1.4.1.318.2.3.1"
upsReturned == ".1.3.6.1.4.1.318.2.3.2"
upsCommLost == ".1.3.6.1.4.1.318.2.3.4"
upsLowBattery == ".1.3.6.1.4.1.318.2.3.5"

\* deviceRepo.GetAll: the configured devices, in the order of the query
TrapDevices ==
    << [ID |-> "ups1", IPAddress |-> "10.0.0.7"],
       [ID |-> "pdu1", IPAddress |-> "10.0.0.8"],
       [ID |-> "ups1b", IPAddress |-> "10.0.0.7"] >>

\* packet.Variables: up to MaxVarbinds bindings (an SNMPv1 trap may carry none),
\* each the snmpTrapOID of a trap or another variable
Packets ==
    LET bindings ==
            { [Name |-> snmpTrapOID, value |-> StrValue(o)] :
                o \in { upsOnBattery, upsReturned, upsCommLost, upsLowBattery,
                        ".1.3.6.1.4.1.318.2.3.9" } }
            \cup { [Name |-> ".1.3.6.1.2.1.1.3.0", value |-> IntValue(0)],
                   [Name |-> ".1.3.6.1.4.1.318.2.3.3.0", value |-> StrValue("on battery")] }
    IN  UNION { [1..n -> bindings] : n \in 0..MaxVarbinds }

\* determineSeverity
determineSeverity(trapOID, variables) ==
    IF trapOID \in { upsOnBattery, upsLowBattery } THEN "critical"
    ELSE IF trapOID \in { upsReturned, upsCommLost } THEN "warning"
    ELSE "info"

\* formatMessage; the formatted fall-backs are the sequence of their parts
formatMessage(trapOID, variables) ==
    IF trapOID = upsOnBattery THEN << "UPS on battery power" >>
    ELSE IF trapOID = upsReturned THEN << "UPS returned to utility power" >>
    ELSE IF trapOID = upsLowBattery THEN << "UPS battery low" >>
    ELSE IF trapOID = upsCommLost THEN << "Communication lost with UPS" >>
    ELSE IF Cardinality(DOMAIN variables) > 0
         THEN << "Trap ", trapOID, " with ", Cardinality(DOMAIN variables), " variables" >>
         ELSE << "Trap ", trapOID >>

\* no trap received yet
NoTraps == [pc |-> "listen", packet |-> <<>>, addr |-> "", repoOk |-> TRUE,
            stored |-> FALSE, connected |-> FALSE, steps |-> <<>>,
            published |-> <<>>,
            log |-> [DeviceID |-> "", SourceIP |-> "", TrapOID |-> "",
                     Variables |-> EmptyMap, Severity |-> "", Message |-> <<>>]]

\* the listener receives a packet from addr and calls the handler
TrapArrives(packet, addr) ==
    /\ traps.pc \in { "listen", "handled" }
    /\ traps' = [NoTraps EXCEPT !.pc = "received", !.packet = packet, !.addr = addr]
    /\ OnlyOld /\ UNCHANGED << sw, comp >>

\* a callback that publishes whether or not the client is connected
onTrapAlways(trapLog, connected) ==
    << [topic |-> << "snmp-bridge", "traps" >>, retain |-> FALSE, payload |-> trapLog] >>

\* the callback main registers with OnTrap: if mqttClient.IsConnected(), the
\* TrapLog is published to <TopicPrefix>/traps, not retained
onTrap(trapLog, connected) ==
    IF connected
    THEN << [topic |-> << "snmp-bridge", "traps" >>, retain |-> FALSE, payload |-> trapLog] >>
    ELSE <<>>

\* handleTrap: the device is the first one of the list with the source address;
\* the trap OID is the value of the last snmpTrapOID binding that is a string and
\* every other binding goes to variables[name]; the TrapLog is built and stored
\* (createOk: trapRepo.Create succeeded), then r.onTrap(trapLog) runs, the
\* callback main registered: if mqttClient.IsConnected() (connected) it
\* publishes the TrapLog to <TopicPrefix>/traps, not retained
handleTrap(getAllOk, createOk, connected) ==
    /\ traps.pc = "received"
    /\ LET packet == traps.packet
           known == { i \in 1..Len(TrapDevices) : TrapDevices[i].IPAddress = traps.addr }
           oidAt == { i \in 1..Len(packet) :
                        packet[i].Name = snmpTrapOID /\ packet[i].value.t = "str" }
           others == { i \in 1..Len(packet) : packet[i].Name # snmpTrapOID }
           last(name) == CHOOSE i \in others :
                            /\ packet[i].Name = name
                            /\ \A j \in others : packet[j].Name = name => j <= i
           trapOID == IF oidAt = {} THEN ""
                      ELSE packet[CHOOSE i \in oidAt : \A j \in oidAt : j <= i].value.v
           variables == [name \in { packet[i].Name : i \in others } |->
                            packet[last(name)].value]
           trapLog == [DeviceID |-> IF getAllOk /\ known # {}
                                    THEN TrapDevices[Min(known)].ID ELSE "",
                       SourceIP |-> traps.addr,
                       TrapOID |-> trapOID,
                       Variables |-> variables,
                       Severity |-> determineSeverity(trapOID, variables),
                       Message |-> formatMessage(trapOID, variables)]
       IN  traps' = [traps EXCEPT
                        !.pc = "handled", !.repoOk = getAllOk,
                        !.stored = createOk, !.log = trapLog,
                        !.connected = connected,
                        !.steps = << "Create", "onTrap" >>
                                    \o [i \in 1..Len(onTrap(trapLog, connected)) |-> "Publish"],
                        !.published = onTrap(trapLog, connected)]
    /\ OnlyOld /\ UNCHANGED << sw, comp >>

(***************************************************************************)
(* Home Assistant discovery: Discovery.PublishDevice                       *)
(***************************************************************************)
NoDiscovery == [pc |-> "none", mappings |-> <<>>, retained |-> EmptyMap,
                prev |-> EmptyMap, runs |-> 0]

\* the fields of a mapping that PublishDevice reads
DiscoveryMapping(name, component, enumValues) ==
    [Name |-> name, HAComponent |-> component, EnumValues |-> enumValues,
     Writable |-> component \in {"switch", "select", "number"}]

\* config.Options of a select: the labels of the keys 1..len(EnumValues) in key
\* order, then the labels not yet listed, in the order of a range over the Go
\* map, which is any order
SelectOptions(enumValues) ==
    LET keys == { k \in 1..Cardinality(DOMAIN enumValues) : k \in DOMAIN enumValues }
        inOrder == IF keys = {} THEN <<>>
                   ELSE CHOOSE f \in [1..Cardinality(keys) -> keys] :
                            \A i, j \in 1..Cardinality(keys) : i < j => f[i] < f[j]
        options == [i \in 1..Len(inOrder) |-> enumValues[inOrder[i]]]
        rest == { enumValues[k] : k \in DOMAIN enumValues }
                    \ { options[i] : i \in 1..Len(options) }
    IN  { options \o tail : tail \in { f \in [1..Cardinality(rest) -> rest] :
                                          \A i, j \in 1..Cardinality(rest) :
                                              i # j => f[i] # f[j] } }

\* the DiscoveryConfig of one mapping of device d1 (no labels, no device class)
DiscoveryConfig(mapping, options) ==
    LET entityID == sanitizeEntityID(mapping.Name)
        onOff == mapping.HAComponent \in {"binary_sensor", "switch"}
    IN  [Name |-> mapping.Name,
         UniqueID |-> << "snmp_bridge_", "d1", "_", entityID >>,
         ObjectID |-> entityID,
         StateTopic |-> << "snmp-bridge", "d1", entityID, "state" >>,
         CommandTopic |-> IF mapping.Writable
                          THEN << "snmp-bridge", "d1", entityID, "set" >> ELSE <<>>,
         PayloadOn |-> IF onOff THEN "ON" ELSE "",
         PayloadOff |-> IF onOff THEN "OFF" ELSE "",
         Options |-> options]

\* PublishDevice(device, profile): one retained config document per mapping, in
\* profile order; the first Publish that fails (client not connected) ends the
\* run, so the first `published` documents reach the broker
PublishDevice(published, options) ==
    /\ ha.pc = "ready"
    /\ ha.runs < MaxPublish
    /\ published \in 0..Len(ha.mappings)
    /\ \A i \in 1..Len(ha.mappings) :
           options[i] \in IF /\ ha.mappings[i].HAComponent = "select"
                             /\ ha.mappings[i].EnumValues # NoEnum
                          THEN SelectOptions(ha.mappings[i].EnumValues) ELSE { <<>> }
    /\ LET topic(i) == << "homeassistant", ha.mappings[i].HAComponent, "d1",
                          sanitizeEntityID(ha.mappings[i].Name), "config" >>
           last(t) == CHOOSE i \in 1..published :
                          /\ topic(i) = t
                          /\ \A j \in 1..published : topic(j) = t => j <= i
           sent == [t \in { topic(i) : i \in 1..published } |->
                      DiscoveryConfig(ha.mappings[last(t)], options[last(t)])]
       IN  ha' = [ha EXCEPT !.prev = ha.retained,
                            !.retained = Merge(ha.retained, sent),
                            !.runs = @ + 1]
    /\ OnlyAux /\ UNCHANGED << sw, comp, traps, hc, ps, reg >>

(***************************************************************************)
(* Publisher.handleCommand for one MQTT set message, on the profile of the *)
(* Publisher's device d1 (d2 is registered without profile).               *)
(***************************************************************************)
NoCommand ==
    [pc |-> "none", profile |-> <<>>, deviceID |-> "", entityID |-> <<>>,
     payload |-> <<>>, mapping |-> 0, gets |-> <<>>, read |-> NilValue,
     sets |-> <<>>, triggered |-> FALSE]

\* strings.Join(parts, sep)
RECURSIVE Join(_, _)
Join(parts, sep) ==
    IF Len(parts) = 0 THEN <<>>
    ELSE IF Len(parts) = 1 THEN parts[1]
    ELSE parts[1] \o << sep >> \o Join(Tail(parts), sep)

\* the mapping a search from the end of the profile would find
findMappingLast(profile, entityID) ==
    LET hits == { i \in 1..Len(profile) : sanitizeEntityID(profile[i].Name) = entityID }
    IN  IF hits = {} THEN 0 ELSE CHOOSE i \in hits : \A j \in hits : j <= i

\* handleCommand: the first mapping of the profile whose sanitized name is the
\* entity id (its index, 0 for nil)
findMapping(profile, entityID) ==
    LET hits == { i \in 1..Len(profile) : sanitizeEntityID(profile[i].Name) = entityID }
    IN  IF hits = {} THEN 0 ELSE Min(hits)

\* a conversion that writes the new value into the field after compositeIndex
convertCompositePayloadToSNMPValueNext(payload, mapping, currentValue) ==
    LET separator == IF mapping.CompositeSeparator = <<>> THEN ","
                     ELSE mapping.CompositeSeparator[1]
        parts == Split(currentValue.v, separator)
        at == IF mapping.CompositeIndex + 2 <= Len(parts) THEN mapping.CompositeIndex + 2
              ELSE 1
    IN  IF currentValue.t # "str" \/ mapping.CompositeIndex >= Len(parts)
        THEN {[t |-> "error", v |-> 0]}
        ELSE {StrValue(Join([parts EXCEPT ![at] = << "1" >>], separator))}

\* convertCompositePayloadToSNMPValue: the strings it may return, or an error.
\* newValue is the key of a label On (Off) of mapping.EnumValues for the payload
\* ON (OFF), else "1" for ON and "0" for everything else; currentValue is what
\* readSNMPValue(device, mapping.OID) returned
convertCompositePayloadToSNMPValue(payload, mapping, currentValue) ==
    LET payloadUpper == ToUpper(payload)
        found == { k \in DOMAIN mapping.EnumValues :
                     \/ EqualFold(mapping.EnumValues[k], LabelOn) /\ payloadUpper = PayloadOn
                     \/ EqualFold(mapping.EnumValues[k], LabelOff) /\ payloadUpper = PayloadOff }
        newValues == IF found # {} THEN { Sprintf(IntValue(k)) : k \in found }
                     ELSE IF payloadUpper = PayloadOn THEN { << "1" >> } ELSE { << "0" >> }
        separator == IF mapping.CompositeSeparator = <<>> THEN ","
                     ELSE mapping.CompositeSeparator[1]
        parts == Split(currentValue.v, separator)
    IN  IF currentValue.t # "str" \/ mapping.CompositeIndex >= Len(parts)
        THEN {[t |-> "error", v |-> 0]}
        ELSE { StrValue(Join([parts EXCEPT ![mapping.CompositeIndex + 1] = newValue],
                             separator)) : newValue \in newValues }

\* a message on snmp-bridge/<deviceID>/<entityID>/set arrives from the broker:
\* the client calls the handler subscribed to the topic with it
CommandMessage(deviceID, entityID, payload) ==
    /\ hc.pc = "ready"
    /\ hc' = [hc EXCEPT !.pc = "message", !.deviceID = deviceID, !.entityID = entityID,
                        !.payload = payload, !.mapping = 0, !.gets = <<>>,
                        !.read = NilValue, !.sets = <<>>, !.triggered = FALSE]
    /\ OnlyAux /\ UNCHANGED << sw, comp, traps, ha, ps, reg >>

\* handleCommand(topic, payload): the device and its profile, the mapping, the
\* writable flag, the conversion (for a composite_switch after a GET of
\* mapping.OID that returned currentValue), sendSNMPSet to writeOID and, when
\* it succeeded, TriggerPoll
handleCommand(currentValue, setOk) ==
    /\ hc.pc = "message"
    /\ LET profile == IF hc.deviceID = "d1" THEN hc.profile ELSE <<>>
           found == findMapping(profile, hc.entityID)
           mapping == profile[found]
           composite == mapping.Type = "composite_switch"
           payloadStr == TrimSpace(hc.payload)
           writeOID == IF mapping.WriteOID = <<>> THEN mapping.OID ELSE mapping.WriteOID
           c == [hc EXCEPT !.pc = "ready", !.mapping = found]
       IN  IF found = 0 THEN hc' = c
           ELSE IF ~mapping.Writable THEN hc' = c
           ELSE \E snmpValue \in
                      IF composite
                      THEN convertCompositePayloadToSNMPValue(payloadStr, mapping, currentValue)
                      ELSE convertPayloadToSNMPValue(payloadStr, mapping) :
                   LET g == IF composite
                            THEN [c EXCEPT !.gets = << mapping.OID >>, !.read = currentValue]
                            ELSE c
                   IN  IF snmpValue.t = "error" THEN hc' = g
                       ELSE hc' = [g EXCEPT !.sets = << [oid |-> writeOID,
                                                         value |-> snmpValue] >>,
                                            !.triggered = setOk]
    /\ OnlyAux /\ UNCHANGED << sw, comp, traps, ha, ps, reg >>

(***************************************************************************)
(* Publisher.publishState for one event                                    *)
(***************************************************************************)
\* no event yet
NoPublish == [pc |-> "none", registered |-> FALSE, mappings |-> <<>>,
              values |-> EmptyMap, derived |-> EmptyMap, fixed |-> EmptyMap,
              direct |-> EmptyMap, hasSources |-> FALSE, options |-> <<>>,
              published |-> <<>>, aggregate |-> EmptyMap]

\* the end of doPoll: s.calculateDerivedValues(values) on the values polled
DoPollDerive ==
    /\ ps.pc = "poll"
    /\ ps' = [ps EXCEPT !.pc = "event", !.derived = calculateDerivedValues(ps.values)]
    /\ OnlyAux /\ UNCHANGED << sw, comp, traps, ha, hc, reg >>

\* publishState: p.calculatePowerIfNeeded(event.Values) on the values of the
\* event; direct is what it gives for the values as they were polled
PublishFixup ==
    /\ ps.pc = "event"
    /\ ps' = [ps EXCEPT !.pc = "fixed",
                        !.fixed = calculatePowerIfNeeded(ps.derived),
                        !.direct = calculatePowerIfNeeded(ps.values)]
    /\ OnlyAux /\ UNCHANGED << sw, comp, traps, ha, hc, reg >>

\* the names publishState looks for
SelectedSource == << "S", "e", "l", "e", "c", "t", "e", "d", " ", "S", "o", "u", "r", "c", "e" >>
PreferredSource == << "P", "r", "e", "f", "e", "r", "r", "e", "d", " ", "S", "o", "u", "r", "c", "e" >>
SourceAName == << "S", "o", "u", "r", "c", "e", " ", "A", " ", "N", "a", "m", "e" >>
SourceBName == << "S", "o", "u", "r", "c", "e", " ", "B", " ", "N", "a", "m", "e" >>

\* convertToBinarySensorValue: the good values, in lower case
goodValues ==
    { << "o", "k" >>,
      << "n", "o", "r", "m", "a", "l" >>,
      << "r", "e", "d", "u", "n", "d", "a", "n", "t" >>,
      << "o", "n" >>,
      << "c", "o", "n", "n", "e", "c", "t", "e", "d" >>,
      << "o", "n", "l", "i", "n", "e" >>,
      << "h", "e", "a", "l", "t", "h", "y" >>,
      << "g", "o", "o", "d" >>,
      << "a", "c", "t", "i", "v", "e" >> }

\* convertToBinarySensorValue: a good value is ON for device class power and
\* OFF for every other class
convertToBinarySensorValue(value, deviceClass) ==
    LET good == ToLower(Sprintf(value)) \in goodValues
    IN  IF deviceClass = "power"
        THEN IF good THEN PayloadOn ELSE PayloadOff
        ELSE IF good THEN PayloadOff ELSE PayloadOn

\* the value publishState finds for a mapping: under its name, else its OID
entityValue(values, m) ==
    IF m.Name \in DOMAIN values THEN values[m.Name] ELSE values[m.OID]

\* the conversion publishState applies for the mapping's component
componentValue(m, value) ==
    IF m.HAComponent = "binary_sensor"
    THEN StrValue(convertToBinarySensorValue(value, m.DeviceClass))
    ELSE IF m.HAComponent = "switch"
    THEN StrValue(convertToSwitchValue(value))
    ELSE value

\* publishState(event): nothing when the client is not connected or the device
\* is not registered with a profile; else the power fixup on event.Values, the
\* select options of the source entities when both source names are there, the
\* retained entity state of every mapping that has a value under its name or
\* its OID, in profile order, and the aggregate state
publishState(connected) ==
    /\ ps.pc = "ready"
    /\ IF ~connected \/ ~ps.registered \/ ps.mappings = <<>>
       THEN ps' = [ps EXCEPT !.pc = "returned"]
       ELSE LET values == calculatePowerIfNeeded(ps.values)
                hasSourceA == SourceAName \in DOMAIN values
                hasSourceB == SourceBName \in DOMAIN values
                sources == hasSourceA /\ hasSourceB
                named(m) == m.Name = SelectedSource \/ m.Name = PreferredSource
                exists(i) == \/ ps.mappings[i].Name \in DOMAIN values
                             \/ ps.mappings[i].OID \in DOMAIN values
                converted(i) ==
                    componentValue(ps.mappings[i], entityValue(values, ps.mappings[i]))
                publishValue(i) ==
                    LET m == ps.mappings[i]
                        strVal == Sprintf(converted(i))
                    IN  IF (m.HAComponent = "select" \/ named(m)) /\ sources
                        THEN IF strVal = << "S", "o", "u", "r", "c", "e", " ", "A" >> \/ strVal = << "1" >>
                             THEN values[SourceAName]
                             ELSE IF strVal = << "S", "o", "u", "r", "c", "e", " ", "B" >> \/ strVal = << "2" >>
                             THEN values[SourceBName]
                             ELSE converted(i)
                        ELSE converted(i)
                message(i) ==
                    [topic |-> << "snmp-bridge", "d1",
                                  sanitizeEntityID(ps.mappings[i].Name), "state" >>,
                     payload |-> Sprintf(publishValue(i)), retained |-> TRUE]
                present == SelectSeq([i \in 1..Len(ps.mappings) |-> i], exists)
                updated == SelectSeq(
                    [i \in 1..Len(ps.mappings) |-> i],
                    LAMBDA i : /\ sources
                               /\ Sprintf(values[SourceAName]) # <<>>
                               /\ Sprintf(values[SourceBName]) # <<>>
                               /\ ps.mappings[i].HAComponent = "select"
                               /\ named(ps.mappings[i]))
            IN  ps' = [ps EXCEPT
                         !.pc = "returned",
                         !.values = values,
                         !.hasSources = sources,
                         !.options = [j \in 1..Len(updated) |->
                                        [entity |-> sanitizeEntityID(
                                                       ps.mappings[updated[j]].Name),
                                         options |-> << Sprintf(values[SourceAName]),
                                                        Sprintf(values[SourceBName]) >>]],
                         !.published = [j \in 1..Len(present) |-> message(present[j])],
                         !.aggregate = values]
    /\ OnlyAux /\ UNCHANGED << sw, comp, traps, ha, hc, reg >>

(***************************************************************************)
(* Publisher.RegisterDevice and the device registry p.devices              *)
(***************************************************************************)
NoRegistry ==
    [pc |-> "none",        \* main: "register" in the loop over the enabled devices, then "serve"
     todo |-> {},          \* devices the loop has still to register
     devices |-> {},       \* the ids of p.devices
     profile |-> {},       \* ... of the entries whose profile is not nil
     discovery |-> {}]     \* devices whose discovery documents were published

\* main after pollerService.Start() and publisher.Start(): the enabled devices
\* are to be registered
RegistryAtStart(enabled) == [NoRegistry EXCEPT !.pc = "register", !.todo = enabled]

\* publisher.RegisterDevice(device) in main's loop, after mqttClient.Connect()
\* has returned: the entry of p.devices, the discovery documents when the
\* profile was found and the client says it is connected, SubscribeCommands
RegisterDevice(d, found) ==
    /\ reg.pc = "register"
    /\ d \in reg.todo
    /\ mqtt.gen # 0
    /\ mqtt.op.pc = "idle"
    /\ ~HandlersRLocked
    /\ LET profile == found /\ devices[d] # 0 /\ pollers[devices[d]].profile # 0
           todo == reg.todo \ {d}
       IN  reg' = [reg EXCEPT
                     !.pc = IF todo = {} THEN "serve" ELSE "register",
                     !.todo = todo,
                     !.devices = @ \cup {d},
                     !.profile = IF profile THEN @ \cup {d} ELSE @ \ {d},
                     !.discovery = IF profile /\ mqtt.connected THEN @ \cup {d} ELSE @]
    /\ mqtt' = [mqtt EXCEPT !.handlers = @ \cup {d}, !.unsubbed = @ \ {d},
                            !.brokerSubs = IF LinkUp(mqtt)
                                           THEN [@ EXCEPT ![mqtt.gen] = @ \cup {d}]
                                           ELSE @]
    /\ UNCHANGED << devices, pollers, states, subscribers, chans, ctxDone, stopPc, subs,
                    api, cmds, agentVer, removed, populated, afterSet,
                    sw, comp, traps, ha, hc, ps >>

(***************************************************************************)
(* Initial state: NewPollerService, no device added, nobody subscribed     *)
(***************************************************************************)
InitEvery(switch, composite, received, discovery, command, publish, registry) ==
    /\ ps = publish
    /\ reg = registry
    /\ devices = [d \in DeviceIds |-> 0]
    /\ pollers = [p \in PollerIds |-> NoPoller]
    /\ states = [d \in DeviceIds |-> NoState]
    /\ subscribers = <<>>
    /\ chans = [c \in SubscriberIds |-> NewChan]
    /\ ctxDone = FALSE
    /\ stopPc = "idle"
    /\ subs = [c \in SubscriberIds |-> SubIdle]
    /\ api = ApiIdle
    /\ cmds = [c \in CmdIds |-> CmdIdle]
    /\ agentVer = [d \in DeviceIds |-> 0]
    /\ removed = [d \in DeviceIds |-> FALSE]
    /\ populated = [d \in DeviceIds |-> {}]
    /\ afterSet = [d \in DeviceIds |-> [pending |-> FALSE, seen |-> 0, ver |-> 0, read |-> FALSE]]
    /\ mqtt = NewMqtt
    /\ sw = switch
    /\ comp = composite
    /\ traps = received
    /\ ha = discovery
    /\ hc = command

InitAll(switch, composite, received, discovery, command) ==
    InitEvery(switch, composite, received, discovery, command, NoPublish, NoRegistry)

InitWith(switch, composite, received) ==
    InitAll(switch, composite, received, NoDiscovery, NoCommand)

Init == InitWith(NoSwitch, NoComp, NoTraps)

(***************************************************************************)
(* Initial states after Start(): the given consumers have subscribed and   *)
(* the enabled device d has been added with configuration cfg              *)
(***************************************************************************)
StartedEvery(d, cfg, subscribed, client, registry) ==
    /\ devices = [x \in DeviceIds |-> IF x = d THEN 1 ELSE 0]
    /\ pollers = [p \in PollerIds |-> IF p = 1 THEN NewPoller(d, cfg) ELSE NoPoller]
    /\ states = [x \in DeviceIds |-> IF x = d THEN NewState ELSE NoState]
    /\ subscribers = subscribed
    /\ chans = [c \in SubscriberIds |-> NewChan]
    /\ ctxDone = FALSE
    /\ stopPc = "idle"
    /\ subs = [c \in SubscriberIds |->
                 IF \E i \in 1..Len(subscribed) : subscribed[i] = c
                 THEN [pc |-> "recv", ev |-> NoEvent] ELSE SubIdle]
    /\ api = ApiIdle
    /\ cmds = [c \in CmdIds |-> CmdIdle]
    /\ agentVer = [x \in DeviceIds |-> 0]
    /\ removed = [x \in DeviceIds |-> FALSE]
    /\ populated = [x \in DeviceIds |-> {}]
    /\ afterSet = [x \in DeviceIds |-> [pending |-> FALSE, seen |-> 0, ver |-> 0, read |-> FALSE]]
    /\ mqtt = client
    /\ sw = NoSwitch
    /\ comp = NoComp
    /\ traps = NoTraps
    /\ ha = NoDiscovery
    /\ hc = NoCommand
    /\ ps = NoPublish
    /\ reg = registry

\* ... and the publisher's registry is left out
StartedWith(d, cfg, subscribed, client) ==
    StartedEvery(d, cfg, subscribed, client, NoRegistry)

\* ... and the MQTT Client has not been connected
Started(d, cfg, subscribed) == StartedWith(d, cfg, subscribed, NewMqtt)

\* the MQTT Client after its first connection and the run of its OnConnect handler
ConnectedMqtt ==
    [NewMqtt EXCEPT !.gen = 1, !.link[1] = "up", !.connected = TRUE,
                    !.status = "online", !.onlineN[1] = 1]

(***************************************************************************)
(* Spec: the lifecycle of the device pollers.  The API adds, updates and   *)
(* removes a device without profile while its poll cycles run and one      *)
(* consumer is subscribed; Stop may be called once.                        *)
(***************************************************************************)
LifeCfgs == [version : {"v2c"}, profile : {0}, enabled : BOOLEAN]
\* its agent answers every OID, with a value or with Null
LifeAnswers == IntResps({MaxVal}) \cup {NullResp}

\* one step of a poll loop that is neither triggered nor told to stop, without
\* the sends of the fan-out
PollerStep(p, maxPolls, answers) ==
    \/ PollStart(p)
    \/ SelectTick(p, maxPolls)
    \/ Get(p, answers)
    \/ GetFail(p)
    \/ Apply(p)
    \/ EmitLock(p)
    \/ EmitDone(p)

ApiStep(cfgs) ==
    \/ \E d \in DeviceIds, cfg \in cfgs : ApiAddDevice(d, cfg)
    \/ \E d \in DeviceIds : ApiRemoveDevice(d)
    \/ \E d \in DeviceIds, cfg \in cfgs : ApiUpdateDevice(d, cfg)
    \/ ApiDeleteState
    \/ ApiUpdateAdd

StopStep ==
    \/ StopCancel
    \/ StopClose
    \/ StopWait
    \/ StopSubs

\* the handlers are interchangeable: the next command to arrive takes the
\* lowest free id
NextCmdId(c) == \A b \in CmdIds : b < c => cmds[b].pc # "idle"

CmdStep ==
    \/ \E c \in CmdIds, d \in DeviceIds : NextCmdId(c) /\ CmdSetOk(c, d)
    \/ \E c \in CmdIds, d \in DeviceIds : NextCmdId(c) /\ CmdSetFail(c, d)
    \/ \E c \in CmdIds : CmdTrigger(c)

PubStep == PubRecv \/ PubCalc \/ PubPublish

WsStep == WsRecv \/ WsMarshal

InitLife ==
    \E cfg \in { c \in LifeCfgs : c.enabled } : Started("d1", cfg, << "ws" >>)

Next ==
    \/ \E p \in PollerIds : PollerStep(p, MaxPollCount, LifeAnswers)
    \/ \E p \in PollerIds : SelectStop(p)
    \/ \E p \in PollerIds : EmitSend(p)
    \/ ApiStep(LifeCfgs)

Spec == InitLife /\ [][Next]_vars

(***************************************************************************)
(* Claims about the lifecycle (checked under Spec)                         *)
(***************************************************************************)
PollersOf(d) == { p \in PollerIds : Active(p) /\ pollers[p].dev = d }

\* C1: every StateUpdateEvent carries every key that a poll cycle of its
\* device has written since the device was most recently added: the key set
\* of a device's events never shrinks.
C1_EventKeepsEveryKey ==
    [][\A p \in PollerIds :
          (pollers[p].pc = "apply" /\ pollers'[p].pc = "emitlock")
              => populated'[pollers[p].dev] \subseteq DOMAIN pollers'[p].ev.Values]_vars

\* C2: once RemoveDevice(id) has returned, no StateUpdateEvent of id is sent
\* to a subscriber any more.
C2_NoEventAfterRemove ==
    [][\A p \in PollerIds :
          (pollers[p].pc = "emit" /\ pollers'[p].k = pollers[p].k + 1)
              => ~removed[pollers[p].dev]]_vars

\* C4: at most one poll loop is active for a device id, and exactly one for a
\* device that is in the table.
C4_OnePollLoopPerDevice ==
    \A d \in DeviceIds :
        /\ Cardinality(PollersOf(d)) <= 1
        /\ devices[d] # 0 => PollersOf(d) = {devices[d]}

\* C9: no two poll cycles of one device id are in flight at once.
C9_CyclesSequential ==
    \A d \in DeviceIds :
        Cardinality({ p \in PollerIds : InCycle(p) /\ pollers[p].dev = d }) <= 1

\* C16: once RemoveDevice(id) has returned and until id is added again, the
\* state store holds no DeviceState for id; while id is in the table and no
\* removal is in progress it holds one.
C16_StateIffInTable ==
    \A d \in DeviceIds :
        /\ removed[d] => ~states[d].exists
        /\ (devices[d] # 0 /\ api.pc = "idle") => states[d].exists

(***************************************************************************)
(* SpecPoll: one device poller on its own, for every SNMP version and      *)
(* profile of the model, through the tenth poll (the static group).        *)
(***************************************************************************)
PollCfgs == [version : {"v1", "v2c"}, profile : ProfileIds, enabled : {TRUE}]
PollAnswers == IntResps(Vals) \cup {NullResp, NoSuchResp}

InitPoll == \E cfg \in PollCfgs : Started("d1", cfg, << >>)

NextPoll ==
    \/ \E p \in PollerIds : PollerStep(p, MaxPollCountLong, PollAnswers)
    \/ \E p \in PollerIds : GetFailV1(p, PollAnswers)

SpecPoll == InitPoll /\ [][NextPoll]_vars

\* C11: a cycle in which a GET failed emits an offline event and leaves a
\* non-empty errors list; an event is online exactly when the cycle recorded
\* no error.
C11_OfflineAfterFailedGet ==
    \A p \in PollerIds :
        pollers[p].pc = "emitlock"
            => /\ pollers[p].getErr
                    => /\ ~pollers[p].ev.Online
                       /\ Len(states[pollers[p].dev].Errors) > 0
               /\ pollers[p].ev.Online <=> (Len(states[pollers[p].dev].Errors) = 0)

\* C3: a GET never asks for an OID that is in the poller's missingOIDs.
C3_MissingNeverRequested ==
    \A p \in PollerIds :
        pollers[p].pc = "get"
            => \A o \in pollers[p].todo : normalizeOID(o) \notin pollers[p].missingOIDs

(***************************************************************************)
(* SpecCmd: commands against one polled device.  Each handler issues its   *)
(* SET and, when it succeeded, calls TriggerPoll; the device may be        *)
(* removed meanwhile.                                                      *)
(***************************************************************************)
CmdCfg == [version |-> "v2c", profile |-> 0, enabled |-> TRUE]
CmdAnswers == IntResps({MaxVal})

InitCmd == Started("d1", CmdCfg, << "ws" >>)

NextCmd ==
    \/ \E p \in PollerIds : PollerStep(p, MaxPollCount, CmdAnswers)
    \/ \E p \in PollerIds : SelectTrigger(p, MaxPollCount)
    \/ \E p \in PollerIds : SelectStop(p)
    \/ \E p \in PollerIds : EmitSend(p)
    \/ CmdStep
    \/ \E d \in DeviceIds : ApiRemoveDevice(d)
    \/ ApiDeleteState

SpecCmd == InitCmd /\ [][NextCmd]_vars

\* C5: a command whose SET succeeded has called TriggerPoll when its handler
\* returns, and that call leaves a trigger pending for the device's poller.
C5_TriggerBeforeReturn ==
    /\ [](\A c \in CmdIds :
            (cmds[c].pc = "returned" /\ cmds[c].setOk) => cmds[c].triggered)
    /\ [][\A c \in CmdIds :
            (cmds[c].pc = "set_ok" /\ cmds'[c].pc = "returned")
                => LET p == devices[cmds[c].dev]
                   IN  p # 0 => pollers'[p].triggerCh = 1]_vars

C5_Witness ==
    \E c \in CmdIds :
        /\ cmds[c].pc = "returned" /\ cmds[c].setOk
        /\ devices[cmds[c].dev] # 0
        /\ pollers[devices[cmds[c].dev]].triggerCh = 1

FanCfg == [version |-> "v2c", profile |-> 3, enabled |-> TRUE]
\* its agent answers an OID with a positive value or with Null
FanAnswers == IntResps({MaxVal}) \cup {NullResp}

InitFan == Started("d1", FanCfg, << "pub", "ws" >>)

NextFan ==
    \/ \E p \in PollerIds : PollerStep(p, MaxPollCountFan, FanAnswers)
    \/ \E p \in PollerIds : EmitSend(p)
    \/ PubStep
    \/ WsStep

SpecFan == InitFan /\ [][NextFan]_vars

\* C7: no queue ever holds more than its capacity; the fan-out is never
\* blocked; each send enqueues the event when the queue has room, drops it
\* otherwise, and touches no other queue.
C7_EmitNeverBlocks ==
    /\ [](\A c \in SubscriberIds : Len(chans[c].buf) <= SubscriberCap)
    /\ [](\A p \in PollerIds :
            pollers[p].pc = "emit" => ENABLED (EmitSend(p) \/ EmitDone(p)))
    /\ [][\A p \in PollerIds :
            (pollers[p].pc = "emit" /\ pollers'[p].k = pollers[p].k + 1)
                => LET ch == subscribers[pollers[p].k]
                   IN  /\ chans'[ch].buf =
                            IF Len(chans[ch].buf) < SubscriberCap
                            THEN Append(chans[ch].buf, pollers[p].ev)
                            ELSE chans[ch].buf
                       /\ \A c \in SubscriberIds \ {ch} : chans'[c] = chans[c]]_vars

\* an event that found the publisher's queue full reached the WebSocket queue
C7_Witness ==
    /\ Len(chans["pub"].buf) = SubscriberCap
    /\ Len(chans["ws"].buf) > 0
    /\ \A i \in 1..Len(chans["pub"].buf) :
          chans["pub"].buf[i].Stamp[2] < chans["ws"].buf[Len(chans["ws"].buf)].Stamp[2]
    /\ \E p \in PollerIds : pollers[p].pc = "select"

\* C8: the event a subscriber is reading does not change under it.
C8_SnapshotNotMutated ==
    [][(subs["ws"].pc = "marshal" /\ subs'["ws"].pc = "marshal")
          => subs'["ws"].ev = subs["ws"].ev]_vars

\* C10: a cycle applies one state update and emits one event; the update
\* sets lastPoll, online and errors, and the event carries all the values
\* accumulated for the device.
C10_OneUpdateOneEvent ==
    \A p \in PollerIds :
        LET dp == pollers[p]
        IN  /\ dp.nUpd <= 1 /\ dp.nEmit <= 1
            /\ (dp.pc = "select" /\ dp.pollCount > 0) => (dp.nUpd = 1 /\ dp.nEmit = 1)
            /\ dp.pc = "emitlock"
                 => /\ states[dp.dev].LastPoll = << p, dp.pollCount >>
                    /\ states[dp.dev].Online = dp.ev.Online
                    /\ dp.ev.Values = states[dp.dev].Values
                    /\ populated[dp.dev] \subseteq DOMAIN dp.ev.Values
                    /\ dp.ev.DeviceID = dp.dev

\* a cycle that failed has completed over values accumulated before it
C10_Witness ==
    \E p \in PollerIds :
        /\ pollers[p].pc = "select"
        /\ pollers[p].pollCount >= 2
        /\ pollers[p].nUpd = 1 /\ pollers[p].nEmit = 1
        /\ ~states[pollers[p].dev].Online
        /\ populated[pollers[p].dev] # {}

(***************************************************************************)
(* SpecStop: PollerService.Stop while the device is polled and the API     *)
(* still removes and adds it (main stops the poller before the HTTP        *)
(* server).                                                                *)
(***************************************************************************)
StopCfg == [version |-> "v2c", profile |-> 0, enabled |-> TRUE]
StopAnswers == IntResps({MaxVal})

InitStop == Started("d1", StopCfg, << "ws" >>)

NextStop ==
    \/ \E p \in PollerIds : PollerStep(p, MaxPollCount, StopAnswers)
    \/ \E p \in PollerIds : SelectStop(p)
    \/ \E p \in PollerIds : SelectCtx(p)
    \/ \E p \in PollerIds : EmitSend(p)
    \/ StopStep
    \/ \E d \in DeviceIds : ApiAddDevice(d, StopCfg)
    \/ \E d \in DeviceIds : ApiRemoveDevice(d)
    \/ ApiDeleteState

SpecStop == InitStop /\ [][NextStop]_vars

\* C12: a subscriber queue is closed only when every poll loop has exited,
\* it is closed only by the one Stop, and no send is made on a closed queue.
C12_QueuesClosedAfterLoops ==
    /\ [][(\E c \in SubscriberIds : ~chans[c].closed /\ chans'[c].closed)
            => \A p \in PollerIds : ~Active(p)]_vars
    /\ [](\A c \in SubscriberIds : chans[c].closed => stopPc = "done")
    /\ [](\A p \in PollerIds :
            (pollers[p].pc = "emit" /\ pollers[p].k <= Len(subscribers))
                => ~chans[subscribers[pollers[p].k]].closed)

(***************************************************************************)
(* SpecMqtt: the MQTT Client alone.  It connects, loses its connection,    *)
(* is reconnected by the library and by Reconnect, while command           *)
(* subscriptions are registered and removed and commands arrive.           *)
(***************************************************************************)
InitMqtt == Init

NextMqtt ==
    \/ MqttConnect
    \/ MqttReconnect
    \/ MqttLost
    \/ \E g \in MqttIds : MqttAutoReconnect(g)
    \/ \E g \in MqttIds : OnConnectOnline(g)
    \/ \E g \in MqttIds, d \in DeviceIds : OnConnectResubscribe(g, d)
    \/ \E g \in MqttIds : OnConnectDone(g)
    \/ \E d \in DeviceIds : SubscribeCommandsStore(d)
    \/ SubscribeCommandsSend
    \/ \E d \in DeviceIds : UnsubscribeCommandsSend(d)
    \/ UnsubscribeCommandsDelete
    \/ \E d \in DeviceIds : CommandArrives(d)

SpecMqtt == InitMqtt /\ [][NextMqtt]_vars

\* no OnConnect handler and no Subscribe/UnsubscribeCommands call is running
MqttQuiet ==
    /\ \A g \in MqttIds : mqtt.hPc[g] = "idle"
    /\ mqtt.op.pc = "idle"

\* C14: "online" is published at most once per established connection, and
\* once the handlers have run it has been published for the connection in use.
C14_OnlineOncePerConnection ==
    /\ \A g \in MqttIds : mqtt.onlineN[g] <= 1
    /\ (MqttQuiet /\ LinkUp(mqtt)) => mqtt.onlineN[mqtt.gen] = 1

\* C15: once the OnConnect handler of the connection in use has run and no
\* call is in progress, the broker holds a command subscription for exactly
\* the ids of the handler table; no command is dispatched for an id whose
\* UnsubscribeCommands has returned.
C15_SubscribedExactlyHandlers ==
    /\ (MqttQuiet /\ LinkUp(mqtt) /\ ~mqtt.fresh[mqtt.gen])
          => mqtt.brokerSubs[mqtt.gen] = mqtt.handlers
    /\ ~mqtt.lateDispatch

(***************************************************************************)
(* SpecShutdown: main's shutdown sequence, publisher.Stop(),               *)
(* pollerService.Stop(), mqttClient.Disconnect(), while the device is      *)
(* polled and the publisher consumes its events.                           *)
(***************************************************************************)
\* publisher.Stop(): p.cancel()
MainStopPublisher ==
    /\ mqtt.mainPc = "run"
    /\ mqtt' = [mqtt EXCEPT !.pubCtx = TRUE, !.mainPc = "stop_poller"]
    /\ OnlyMqtt

\* pollerService.Stop()
MainStopPoller == mqtt.mainPc = "stop_poller" /\ StopStep

\* mqttClient.Disconnect(): the retained offline, when the client is connected
MainDisconnectPublish ==
    /\ mqtt.mainPc = "stop_poller"
    /\ stopPc = "done"
    /\ mqtt' = IF IsConnected(mqtt)
               THEN [PublishStatus(mqtt, "offline")
                       EXCEPT !.offlineSent = LinkUp(mqtt), !.mainPc = "disconnect"]
               ELSE [mqtt EXCEPT !.mainPc = "exit"]
    /\ OnlyMqtt

\* mqttClient.Disconnect(): c.client.Disconnect(250)
MainDisconnectClose ==
    /\ mqtt.mainPc = "disconnect"
    /\ mqtt' = [DisconnectClient(mqtt) EXCEPT !.mainPc = "exit"]
    /\ OnlyMqtt

InitShutdown == StartedWith("d1", StopCfg, << "pub" >>, ConnectedMqtt)

NextShutdown ==
    \/ \E p \in PollerIds : PollerStep(p, MaxPollCount, StopAnswers)
    \/ \E p \in PollerIds : SelectStop(p)
    \/ \E p \in PollerIds : SelectCtx(p)
    \/ \E p \in PollerIds : EmitSend(p)
    \/ PubStep
    \/ PubExit
    \/ MainStopPublisher
    \/ MainStopPoller
    \/ MainDisconnectPublish
    \/ MainDisconnectClose
    \/ MqttLost
    \/ \E g \in MqttIds : MqttAutoReconnect(g)
    \/ \E g \in MqttIds : OnConnectOnline(g)
    \/ \E g \in MqttIds : OnConnectDone(g)

SpecShutdown == InitShutdown /\ [][NextShutdown]_vars

\* C13: the retained offline is published after the poll loops have exited
\* and the subscriber queues are closed; no state is published after it; and
\* after the shutdown the retained bridge status is offline.
C13_ShutdownOrder ==
    /\ mqtt.offlineSent
          => /\ \A p \in PollerIds : ~Active(p)
             /\ \A i \in 1..Len(subscribers) : chans[subscribers[i]].closed
             /\ stopPc = "done"
    /\ ~mqtt.lateState
    /\ mqtt.mainPc = "exit" => mqtt.status = "offline"

(***************************************************************************)
(* SpecSwitch: one writable or read-only switch mapping of a registered    *)
(* device.  Commands arrive on its set topic and on another entity's, the  *)
(* SET succeeds or fails, the device is polled and its state published.    *)
(***************************************************************************)
\* the device is registered with or without a write community, its outlet is off
InitSwitch ==
    \E writeCommunity \in { "", "private" }, mapping \in SwitchMappings :
        InitWith([NoSwitch EXCEPT
                     !.pc = "idle",
                     !.device = [ID |-> "d1", Community |-> "public",
                                 WriteCommunity |-> writeCommunity],
                     !.mapping = mapping,
                     !.agent = IntValue(DefaultOff)],
                 NoComp, NoTraps)

\* commands arrive for the outlet and for an entity the profile does not have
NextSwitch ==
    \/ \E entityID \in { sanitizeEntityID(OutletName), << "f", "a", "n" >> },
          payload \in { PayloadOn, << " ", "O", "n", " " >>, PayloadOff, << "o", "f", "f" >> } :
            SwHandleCommand(entityID, payload)
    \/ \E ok \in BOOLEAN : SwSendSNMPSet(ok)
    \/ SwTriggerPoll
    \/ SwPoll
    \/ \E connected \in BOOLEAN : SwPublishState(connected)

SpecSwitch == InitSwitch /\ [][NextSwitch]_vars

\* C17: for a switch mapping without enumValues on an echo device, the state
\* published from a poll that read the device after the last successful SET
\* is the payload of that command, ON for ON and OFF for OFF; it is retained
\* and on <prefix>/<deviceId>/<entityId>/state of the commanded entity.
C17_SwitchRoundTrip ==
    (/\ sw.pc # "none"
     /\ sw.mapping.EnumValues = NoEnum
     /\ sw.lastSet # <<>>
     /\ sw.topic.current)
        => /\ sw.topic.payload = sw.lastSet
           /\ sw.topic.retained
           /\ sw.topic.topic = << "snmp-bridge", sw.device.ID, sw.lastEntity, "state" >>

\* ON was commanded, polled and published as ON, then OFF was commanded,
\* polled and published as OFF
C17_Witness ==
    /\ sw.pc # "none"
    /\ sw.mapping.EnumValues = NoEnum
    /\ sw.prevSet = PayloadOn
    /\ sw.prevPub = PayloadOn
    /\ sw.lastSet = PayloadOff
    /\ sw.topic.current
    /\ sw.topic.payload = PayloadOff

\* the integers the command's payload stands for: the keys labelled On / Off
\* in the mapping's enumValues, the defaults 1 / 2 when there is no such label
ExpectedSetValues ==
    LET enum == sw.mapping.EnumValues
        wanted == ToLower(TrimSpace(sw.payload))
        keys == { k \in DOMAIN enum : ToLower(enum[k]) = wanted }
    IN  IF keys # {} THEN keys
        ELSE IF wanted = << "o", "n" >> THEN {DefaultOn} ELSE {DefaultOff}

\* C18: a command for a writable switch mapping converts ON / OFF (in any
\* case) to the key labelled On / Off in enumValues, else to 1 / 2, and issues
\* exactly one SET of that integer to writeOID (oid when writeOID is empty)
\* with the write community (the community when there is none); with
\* {1: On, 2: Off} a successful OFF is a SET of 2 followed by TriggerPoll.
C18_SwitchCommandSet ==
    sw.pc # "none" =>
        /\ sw.pc = "set" => sw.sets = <<>> /\ sw.snmpValue \in ExpectedSetValues
        /\ (sw.pc = "trigger" \/ (sw.pc = "idle" /\ sw.setOk))
              => /\ Len(sw.sets) = 1
                 /\ sw.sets[1].value.t = "int"
                 /\ sw.sets[1].value.v \in ExpectedSetValues
                 /\ sw.sets[1].oid = IF sw.mapping.WriteOID # <<>>
                                     THEN sw.mapping.WriteOID ELSE sw.mapping.OID
                 /\ sw.sets[1].community = IF sw.device.WriteCommunity # ""
                                           THEN sw.device.WriteCommunity
                                           ELSE sw.device.Community
        /\ (/\ sw.pc = "idle"
            /\ sw.setOk
            /\ sw.mapping.EnumValues = (1 :> LabelOn) @@ (2 :> LabelOff)
            /\ ToUpper(TrimSpace(sw.payload)) = PayloadOff)
              => sw.sets[1].value = IntValue(2) /\ sw.triggered

\* OFF for a mapping with {1: On, 2: Off}, a writeOID and a write community:
\* the SET of 2 went to the writeOID and the poll was requested
C18_Witness ==
    /\ sw.pc = "idle"
    /\ sw.setOk
    /\ sw.triggered
    /\ sw.mapping.EnumValues = (1 :> LabelOn) @@ (2 :> LabelOff)
    /\ sw.mapping.WriteOID # <<>>
    /\ sw.device.WriteCommunity = "private"
    /\ ToUpper(TrimSpace(sw.payload)) = PayloadOff
    /\ sw.sets = << [oid |-> sw.mapping.WriteOID, community |-> "private",
                     value |-> IntValue(2)] >>

(***************************************************************************)
(* SpecComposite: the poll of a device with MaxOutlets + 1 composite       *)
(* mappings on one OID, for every separator and answer of the model.       *)
(***************************************************************************)
InitComposite ==
    \E separator \in { <<>>, << "," >>, << ";" >> }, enumValues \in { NoEnum, OffOn } :
        InitWith(NoSwitch,
                 [NoComp EXCEPT !.pc = "get",
                                !.mappings = CompositeMappings(separator, enumValues)],
                 NoTraps)

NextComposite ==
    \/ \E raw \in RawStrings : CompGet(StrValue(raw))
    \/ \E n \in Vals : CompGet(IntValue(n))
    \/ CompGet(NullResp)
    \/ CompTransform
    \/ CompStoreRaw
    \/ CompNextPoll

SpecComposite == InitComposite /\ [][NextComposite]_vars

\* the value stored for mapping i, null when values has no key for it
StoredFor(i) ==
    LET key == NameKey(comp.mappings[i].Name)
    IN  IF key \in DOMAIN comp.values THEN comp.values[key] ELSE NilValue

\* C19: after the poll, for the raw string "1,0,1,-1", separator "," and
\* enumValues {0: Off, 1: On}, the mappings with compositeIndex 0..3 hold On,
\* Off, On and null; and for every raw string a mapping whose compositeIndex
\* is beyond the last field has no key in values.
C19_CompositeFields ==
    (comp.pc = "done" /\ comp.raw.t = "str") =>
        LET separator == IF comp.mappings[1].CompositeSeparator = <<>> THEN ","
                         ELSE comp.mappings[1].CompositeSeparator[1]
            fields == Split(comp.raw.v, separator)
        IN  /\ (/\ comp.raw.v = RawOutlets
                /\ separator = ","
                /\ comp.mappings[1].EnumValues = OffOn)
                  => /\ StoredFor(1).t = "str" /\ StoredFor(1).v = LabelOn
                     /\ StoredFor(2).t = "str" /\ StoredFor(2).v = LabelOff
                     /\ StoredFor(3).t = "str" /\ StoredFor(3).v = LabelOn
                     /\ StoredFor(4).t = "nil"
            /\ \A i \in 1..Len(comp.mappings) :
                   comp.mappings[i].CompositeIndex >= Len(fields)
                       => NameKey(comp.mappings[i].Name) \notin DOMAIN comp.values

(***************************************************************************)
(* SpecTrap: the trap receiver handles packets of up to MaxVarbinds        *)
(* variable bindings from known and unknown source addresses.              *)
(***************************************************************************)
NextTrap ==
    \/ \E packet \in Packets, addr \in { "10.0.0.7", "10.0.0.8", "10.0.0.99" } :
          TrapArrives(packet, addr)
    \/ \E getAllOk \in BOOLEAN, createOk \in BOOLEAN, connected \in BOOLEAN :
          handleTrap(getAllOk, createOk, connected)

SpecTrap == Init /\ [][NextTrap]_vars

\* C20: the stored TrapLog names a configured device with the source IP (none
\* when there is none), its trapOid is the value of the snmpTrapOID binding,
\* which is not among its variables, its severity is that of the trap OID,
\* and its message is the table's text or "Trap <oid> with <n> variables".
C20_TrapLogFields ==
    (traps.pc = "handled" /\ traps.stored /\ traps.repoOk) =>
        LET log == traps.log
            known == { i \in 1..Len(TrapDevices) : TrapDevices[i].IPAddress = log.SourceIP }
            oidAt == { i \in 1..Len(traps.packet) : traps.packet[i].Name = snmpTrapOID }
            n == Cardinality({ traps.packet[i].Name :
                                 i \in { j \in 1..Len(traps.packet) :
                                            traps.packet[j].Name # snmpTrapOID } })
        IN  /\ IF known = {} THEN log.DeviceID = ""
               ELSE \E i \in known : log.DeviceID = TrapDevices[i].ID
            /\ oidAt # {} => \E i \in oidAt : log.TrapOID = traps.packet[i].value.v
            /\ snmpTrapOID \notin DOMAIN log.Variables
            /\ log.Severity = CASE log.TrapOID \in { upsOnBattery, upsLowBattery } -> "critical"
                                [] log.TrapOID \in { upsReturned, upsCommLost } -> "warning"
                                [] OTHER -> "info"
            /\ log.Message = CASE log.TrapOID = upsOnBattery -> << "UPS on battery power" >>
                               [] log.TrapOID = upsReturned -> << "UPS returned to utility power" >>
                               [] log.TrapOID = upsLowBattery -> << "UPS battery low" >>
                               [] log.TrapOID = upsCommLost -> << "Communication lost with UPS" >>
                               [] OTHER -> << "Trap ", log.TrapOID, " with ", n, " variables" >>
            /\ (log.SourceIP = "10.0.0.7" /\ log.TrapOID = upsOnBattery)
                  => /\ log.DeviceID \in { "ups1", "ups1b" }
                     /\ log.Severity = "critical"
                     /\ log.Message = << "UPS on battery power" >>

(***************************************************************************)
(* SpecScale: the poll of one OID that three mappings name, two of them    *)
(* with a scale, for every scale, dynamic type and raw value of the model. *)
(***************************************************************************)
\* Battery Voltage (integer, scaled), Battery Level (enum, scaled) and
\* Battery Status (enum {1: OK, 2: Low}, no scale) on the polled OID
ScaleMappings(scale) ==
    LET mapping(name, type, sc, enumValues) ==
            [OID |-> CompositeOID, Name |-> << name >>, PollGroup |-> "frequent",
             Scale |-> sc, Type |-> type, EnumValues |-> enumValues]
        status == (1 :> << "O", "K" >>) @@ (2 :> << "L", "o", "w" >>)
    IN  << mapping("Battery Voltage", "integer", scale, NoEnum),
           mapping("Battery Level", "enum", scale, status),
           mapping("Battery Status", "enum", 0, status) >>

\* scales 0.1, 0.01, 0.0125, 0.0004, 0.0099 and 2
InitScale ==
    \E scale \in { 1000, 100, 125, 4, 99, 2 * ScaleDen } :
        InitWith(NoSwitch,
                 [NoComp EXCEPT !.pc = "get", !.mappings = ScaleMappings(scale)],
                 NoTraps)

\* variable.Value of gosnmp: int for Integer, uint for Counter32 and Gauge32,
\* uint64 for Counter64, uint32 for TimeTicks and Uinteger32; a string for
\* OctetString
NextScale ==
    \/ \E t \in {"int", "uint", "uint64", "uint32"}, x \in (0..MaxRaw) \cup {126, 250} :
           CompGet([t |-> t, v |-> x])
    \/ \E raw \in { << "1", "2", "6" >>, << "O", "K" >>, << "1", "2", "a" >>, <<>> } :
           CompGet(StrValue(raw))
    \/ CompGet(NullResp)
    \/ CompTransform
    \/ CompStoreRaw
    \/ CompNextPoll

SpecScale == InitScale /\ [][NextScale]_vars

\* C21: after the poll, for every mapping m with scale # 0 and a numeric raw
\* value x (an integer, counter, gauge, timeticks or a string that parses as a
\* number) the value stored under m.name is round(x * m.scale, d) with d = 3 if
\* m.scale < 0.01 and d = 2 otherwise; the raw OID key holds the untransformed
\* x; a non-numeric raw value is stored unchanged.
C21_ScaledAndRounded ==
    comp.pc = "done" /\ comp.raw.t # "nil" =>
        LET raw == comp.raw
            stored == comp.values[VariableName(CompositeOID)]
            numeric == IF raw.t = "str" THEN ParseFloat(raw.v).ok ELSE TRUE
            x == IF raw.t = "str" THEN ParseFloat(raw.v).v ELSE raw.v
        IN  /\ stored.t = raw.t /\ stored.v = raw.v
            /\ \A i \in 1..Len(comp.mappings) :
                   LET m == comp.mappings[i]
                       unit == IF 100 * m.Scale < ScaleDen THEN 1 ELSE 10
                   IN  m.Scale # 0 =>
                         IF numeric
                         THEN /\ StoredFor(i).t = "float64"
                              /\ StoredFor(i).v
                                   = unit * Round(x * m.Scale, unit * (ScaleDen \div 1000))
                         ELSE /\ StoredFor(i).t = raw.t
                              /\ StoredFor(i).v = raw.v

(***************************************************************************)
(* SpecDiscovery: PublishDevice runs for a device with a sensor and a      *)
(* select, for every mapping name and enumValues table of the model.       *)
(***************************************************************************)
\* {1: Off, 2: On}, {0: Off, 1: On, 2: Auto}, {0: Off, 10: On},
\* {2: Off, 3: On, 4: Auto} and nil
InitDiscovery ==
    LET names == UNION { [1..n -> {"A", "1", " ", "-", ".", "_", "!"}] : n \in 0..MaxNameLen }
        auto == << "A", "u", "t", "o" >>
        tables == { NoEnum, (1 :> LabelOff) @@ (2 :> LabelOn),
                    (0 :> LabelOff) @@ (1 :> LabelOn) @@ (2 :> auto),
                    (0 :> LabelOff) @@ (10 :> LabelOn),
                    (2 :> LabelOff) @@ (3 :> LabelOn) @@ (4 :> auto) }
        mode == << "M", "o", "d", "e" >>
    IN  \E profile \in
              { << DiscoveryMapping(name, "sensor", NoEnum),
                   DiscoveryMapping(mode, "select", (1 :> LabelOff) @@ (2 :> LabelOn)) >> :
                   name \in names }
              \cup { << DiscoveryMapping(<< "O", "u", "t", " ", "1" >>, "switch", NoEnum),
                        DiscoveryMapping(mode, "select", enumValues) >> :
                        enumValues \in tables } :
            InitAll(NoSwitch, NoComp, NoTraps,
                    [NoDiscovery EXCEPT !.pc = "ready", !.mappings = profile], NoCommand)

NextDiscovery ==
    \E published \in 0..Len(ha.mappings),
       options \in { <<>> } \cup SelectOptions(ha.mappings[2].EnumValues) :
        PublishDevice(published, << <<>>, options >>)

SpecDiscovery == InitDiscovery /\ [][NextDiscovery]_vars

\* C22: the entity id of a published document is the lower-cased mapping name
\* with each run of space, dash and dot characters replaced by a single "_"
\* and every other character outside [a-z0-9_] dropped; it holds only
\* characters in [a-z0-9_], and sanitizing it again does not change it.
C22_SanitizeRunsIdempotent ==
    \A t \in DOMAIN ha.retained :
        LET name == ha.retained[t].Name
            entityID == ha.retained[t].ObjectID
            lower == ToLower(name)
            sep(i) == lower[i] \in {" ", "-", "."}
            kept == { i \in 1..Len(lower) :
                        IF sep(i) THEN i = 1 \/ ~sep(i - 1)
                        ELSE \/ IndexOf(lower[i], LowerCase) > 0
                             \/ IndexOf(lower[i], Digits) > 0
                             \/ lower[i] = "_" }
            nth(k) == CHOOSE i \in kept : Cardinality({ j \in kept : j <= i }) = k
            claimed == [k \in 1..Cardinality(kept) |->
                          IF sep(nth(k)) THEN "_" ELSE lower[nth(k)]]
        IN  /\ entityID = claimed
            /\ \A i \in 1..Len(entityID) :
                   \/ IndexOf(entityID[i], LowerCase) > 0
                   \/ IndexOf(entityID[i], Digits) > 0
                   \/ entityID[i] = "_"
            /\ sanitizeEntityID(entityID) = entityID

\* C23: a second PublishDevice of the same device and profile leaves the
\* retained config topics as the first left them: the same topics hold the
\* same documents, the order of a select's options included.
C23_RepublishNoEffect ==
    (ha.runs >= 2 /\ DOMAIN ha.prev = DOMAIN ha.retained) => ha.retained = ha.prev

(***************************************************************************)
(* SpecTrigger: commands against one polled device within one interval of  *)
(* its ticker, so that every cycle after the initial poll is a triggered    *)
(* one; the device may be removed meanwhile and nobody has subscribed.     *)
(* Every goroutine that can take a step eventually takes one.              *)
(***************************************************************************)
\* the steps of the goroutine of poller p, the ticker case excepted
PollDevice(p) ==
    \/ PollStart(p)
    \/ SelectTrigger(p, MaxCmds + 1)
    \/ SelectStop(p)
    \/ Get(p, CmdAnswers)
    \/ GetFail(p)
    \/ Apply(p)
    \/ EmitLock(p)
    \/ EmitDone(p)

NextTrigger ==
    \/ \E p \in PollerIds : PollDevice(p)
    \/ CmdStep
    \/ \E d \in DeviceIds : ApiRemoveDevice(d)
    \/ ApiDeleteState

SpecTrigger ==
    /\ Started("d1", CmdCfg, <<>>)
    /\ [][NextTrigger]_vars
    /\ \A p \in PollerIds : WF_vars(PollDevice(p))
    /\ \A c \in CmdIds : WF_vars(CmdTrigger(c))

NextLocks ==
    \/ \E d \in DeviceIds, profile \in 1..Len(Profiles) :
           AddDeviceGetProfile(d, [version |-> "v2c", profile |-> profile, enabled |-> TRUE])
    \/ \E found \in BOOLEAN : AddDeviceStore(found)
    \/ \E d \in DeviceIds : ~DevicesLocked /\ ApiRemoveDevice(d)
    \/ ApiDeleteState
    \/ NextMqtt

SpecLocks == Init /\ [][NextLocks]_vars

\* C25: no task that is inside a repository call holds the poller's
\* device-table lock, and no Subscribe is sent to the broker by a task that
\* holds the MQTT client's handler-table lock.
C25_NoLockWhileBlocking ==
    /\ [](~DevicesLocked)
    /\ [][\A g \in MqttIds :
            (mqtt.hPc[g] = "resub" /\ mqtt'.hTodo[g] # mqtt.hTodo[g]) => ~HandlersRLocked]_vars

\* C26: a cycle whose Connect fails counts the poll, issues no GET, sets the
\* state offline with the connect error as its errors, leaves the accumulated
\* values as they were, emits one event that carries all of them, and does not
\* call UpdateLastSeen.
C26_ConnectFailureCycle ==
    /\ [](\A p \in PollerIds :
            (InCycle(p) /\ ~pollers[p].hasValues) => pollers[p].nGet = 0)
    /\ [][\A p \in PollerIds :
            LET a == pollers[p]
                b == pollers'[p]
                old == IF states[a.dev].exists THEN states[a.dev].Values ELSE EmptyMap
            IN  /\ (a.pc \in {"start", "select"} /\ b.pc = "apply" /\ ~b.hasValues)
                      => /\ b.pollCount = a.pollCount + 1
                         /\ b.todo = {} /\ b.nGet = 0
                         /\ b.errors = << "connect" >>
                /\ (a.pc = "apply" /\ ~a.hasValues /\ b.pc = "emitlock")
                      => /\ ~states'[a.dev].Online
                         /\ states'[a.dev].Errors = << "connect" >>
                         /\ states'[a.dev].Values = old
                         /\ b.ev.Values = old /\ ~b.ev.Online
                /\ (a.pc = "emit" /\ ~a.hasValues /\ b.pc = "select")
                      => b.nUpd = 1 /\ b.nEmit = 1 /\ b.nSeen = 0]_vars

\* the event of a cycle that could not connect, for a device that has values
C26_Witness ==
    \E p \in PollerIds :
        /\ pollers[p].pc = "emit" /\ ~pollers[p].hasValues
        /\ pollers[p].pollCount >= 2
        /\ pollers[p].ev.Values # EmptyMap

\* C27: when cycle n begins its GETs, the OID of a mapping that is not in
\* missingOIDs is among the OIDs of the cycle exactly when n mod k = 0, with
\* k = 1 for the poll group frequent (or none) and k = 10 for static.
C27_PollGroupCadence ==
    [][\A p \in PollerIds :
         LET a == pollers[p]
             b == pollers'[p]
             ms == OIDMappings(b.profile)
         IN  (a.pc \in {"start", "select"} /\ b.pc = "get")
                 => \A i \in 1..Len(ms) :
                        normalizeOID(ms[i].OID) \notin b.missingOIDs
                            => ((\E o \in b.todo : normalizeOID(o) = normalizeOID(ms[i].OID))
                                  <=> b.pollCount % (IF ms[i].PollGroup = "static"
                                                     THEN 10 ELSE 1) = 0)]_vars

(***************************************************************************)
(* SpecCommand: set messages for known and unknown devices and entities,   *)
(* with every payload of the model, against a profile with two switches of *)
(* the same entity id, a select, a number, a composite switch and a sensor.*)
(***************************************************************************)
CommandProfile(writable, enumValues, index, separator) ==
    LET mapping(name, component, type, enum, w, oid, writeOID) ==
            [OID |-> << Dot, oid >>, Name |-> name, PollGroup |-> "frequent", Scale |-> 0,
             Type |-> type, EnumValues |-> enum, HAComponent |-> component,
             Writable |-> w, WriteOID |-> writeOID,
             CompositeIndex |-> index, CompositeSeparator |-> separator]
    IN  << mapping(OutletName, "switch", "integer", NoEnum, writable, "outlet1", <<>>),
           mapping(<< "O", "U", "T", "L", "E", "T", "-", "1" >>, "switch", "integer",
                   NoEnum, TRUE, "outlet1b", << Dot, "outlet1bCtl" >>),
           mapping(<< "M", "o", "d", "e" >>, "select", "enum",
                   (1 :> << "A", "u", "t", "o" >>) @@ (2 :> << "E", "c", "o" >>),
                   TRUE, "mode", <<>>),
           mapping(<< "L", "e", "v", "e", "l" >>, "number", "integer", NoEnum, TRUE,
                   "level", <<>>),
           mapping(<< "S", "o", "c", "k", "e", "t", "s" >>, "switch", "composite_switch",
                   enumValues, TRUE, "sockets", << Dot, "socketsCtl" >>),
           mapping(<< "V", "o", "l", "t", "s" >>, "sensor", "gauge", NoEnum, FALSE,
                   "volts", <<>>) >>

InitCommand ==
    \E writable \in BOOLEAN, enumValues \in { NoEnum, OffOn },
       index \in 0..MaxOutlets, separator \in { <<>>, << ";" >> } :
        InitAll(NoSwitch, NoComp, NoTraps, NoDiscovery,
                [NoCommand EXCEPT
                    !.pc = "ready",
                    !.profile = CommandProfile(writable, enumValues, index, separator)])

\* the device ids d1 (registered with the profile), d2 (registered without) and
\* d3 (unknown); the entity ids of the profile and one of no mapping; the
\* payloads ON, off, " On ", toggle, auto, 42, 3.7 and abc; what the GET of the
\* composite OID returns: a string, an integer or an error
NextCommand ==
    \/ \E deviceID \in { "d1", "d2", "d3" },
          entityID \in { sanitizeEntityID(OutletName), << "m", "o", "d", "e" >>,
                         << "l", "e", "v", "e", "l" >>,
                         << "s", "o", "c", "k", "e", "t", "s" >>,
                         << "v", "o", "l", "t", "s" >>, << "f", "a", "n" >> },
          payload \in { PayloadOn, << "o", "f", "f" >>, << " ", "O", "n", " " >>,
                        << "t", "o", "g", "g", "l", "e" >>, << "a", "u", "t", "o" >>,
                        << "4", "2" >>, << "3", ".", "7" >>, << "a", "b", "c" >> } :
           CommandMessage(deviceID, entityID, payload)
    \/ \E setOk \in BOOLEAN :
           \/ \E raw \in { RawOutlets, << "1", ";", "0", ";", "1" >>, << "0" >>, <<>> } :
                  handleCommand(StrValue(raw), setOk)
           \/ handleCommand(IntValue(1), setOk)
           \/ handleCommand(ErrResp, setOk)

SpecCommand == InitCommand /\ [][NextCommand]_vars

\* C28: a command for a device the publisher does not know or has no profile
\* for, for an entity id that is no mapping's sanitized name, or for a mapping
\* that is not writable issues no GET and no SET and triggers no poll; the
\* mapping used is the first of the profile with that entity id.
C28_UnknownOrReadOnlyDropped ==
    (hc.pc = "ready" /\ hc.deviceID # "") =>
        LET hits == { i \in 1..Len(hc.profile) :
                        sanitizeEntityID(hc.profile[i].Name) = hc.entityID }
            first == CHOOSE i \in hits : \A j \in hits : i <= j
            m == hc.profile[first]
        IN  /\ (hc.deviceID # "d1" \/ hits = {} \/ ~m.Writable)
                  => hc.gets = <<>> /\ hc.sets = <<>> /\ ~hc.triggered
            /\ hc.sets # <<>>
                  => hc.sets[1].oid = IF m.WriteOID = <<>> THEN m.OID ELSE m.WriteOID

\* a command for the entity id of two mappings has sent the SET of the first
C28_Witness ==
    /\ hc.pc = "ready"
    /\ hc.entityID = sanitizeEntityID(OutletName)
    /\ hc.sets # <<>> /\ hc.sets[1].oid = hc.profile[1].OID
    /\ hc.triggered

\* C29: a select payload that equals no enumValues label (in any case), a
\* number payload that is not an integer and a switch payload that is neither
\* ON nor OFF (in any case) lead to no SET and to no triggered poll.
C29_BadPayloadDropped ==
    (hc.pc = "ready" /\ hc.mapping # 0) =>
        LET m == hc.profile[hc.mapping]
            payload == TrimSpace(hc.payload)
            digits == IF payload # <<>> /\ payload[1] \in {"+", "-"} THEN Tail(payload)
                      ELSE payload
            integer == /\ digits # <<>>
                       /\ \A i \in 1..Len(digits) : IndexOf(digits[i], Digits) > 0
            bad == \/ /\ m.HAComponent = "select"
                      /\ \A k \in DOMAIN m.EnumValues : ~EqualFold(m.EnumValues[k], payload)
                   \/ m.HAComponent = "number" /\ ~integer
                   \/ /\ m.HAComponent = "switch"
                      /\ ToUpper(payload) \notin { PayloadOn, PayloadOff }
        IN  bad => hc.sets = <<>> /\ ~hc.triggered

\* C30: a command for a writable composite_switch mapping first reads the
\* composite OID; when the read fails, does not return a string or has no field
\* compositeIndex, no SET is sent; otherwise one SET is sent whose string has
\* the fields of the string read, except that field compositeIndex is the
\* enumValues key labelled On (else 1) for ON and the key labelled Off (else 0)
\* for OFF.
C30_CompositeReadModifyWrite ==
    (/\ hc.pc = "ready" /\ hc.mapping # 0
     /\ hc.profile[hc.mapping].Type = "composite_switch"
     /\ hc.profile[hc.mapping].Writable) =>
        LET m == hc.profile[hc.mapping]
            separator == IF m.CompositeSeparator = <<>> THEN "," ELSE m.CompositeSeparator[1]
            payload == ToUpper(TrimSpace(hc.payload))
            keys(label) == { k \in DOMAIN m.EnumValues : EqualFold(m.EnumValues[k], label) }
            expected == IF payload = PayloadOn
                        THEN IF keys(LabelOn) = {} THEN { << "1" >> }
                             ELSE { Sprintf(IntValue(k)) : k \in keys(LabelOn) }
                        ELSE IF keys(LabelOff) = {} THEN { << "0" >> }
                             ELSE { Sprintf(IntValue(k)) : k \in keys(LabelOff) }
        IN  /\ hc.gets = << m.OID >>
            /\ IF hc.read.t # "str" THEN hc.sets = <<>>
               ELSE LET old == Split(hc.read.v, separator)
                    IN  IF m.CompositeIndex >= Len(old) THEN hc.sets = <<>>
                        ELSE /\ Len(hc.sets) = 1
                             /\ hc.sets[1].value.t = "str"
                             /\ LET new == Split(hc.sets[1].value.v, separator)
                                IN  /\ Len(new) = Len(old)
                                    /\ \A i \in 1..Len(old) :
                                           i # m.CompositeIndex + 1 => new[i] = old[i]
                                    /\ payload \in { PayloadOn, PayloadOff }
                                           => new[m.CompositeIndex + 1] \in expected

\* the SET of an ON command for a socket in the middle of the string read
C30_Witness ==
    /\ hc.pc = "ready" /\ hc.mapping # 0
    /\ hc.profile[hc.mapping].Type = "composite_switch"
    /\ ToUpper(TrimSpace(hc.payload)) = PayloadOn
    /\ hc.profile[hc.mapping].CompositeIndex = 1
    /\ hc.read.t = "str" /\ hc.read.v = RawOutlets
    /\ Len(hc.sets) = 1
    /\ hc.sets[1].value.v = << "1", ",", "1", ",", "1", ",", "-", "1" >>
    /\ hc.triggered

\* C36: every OID a poll cycle of a device with a profile requests is the OID
\* of a mapping of that profile; the base OIDs sysDescr and sysUpTime are
\* requested for a device without a profile only.
C36_ProfileOIDsOnly ==
    \A p \in PollerIds :
        (pollers[p].pc = "get" /\ pollers[p].profile # 0)
            => \A o \in pollers[p].todo :
                  \E i \in 1..Len(OIDMappings(pollers[p].profile)) :
                      OIDMappings(pollers[p].profile)[i].OID = o

\* C35: no call closes a channel that is closed already: RemoveDevice and
\* UpdateDevice never reach close(dp.stopCh) for a devicePoller whose stop
\* channel Stop has closed, and a subscriber queue is closed by Stop only.
C35_NoDoubleClose ==
    /\ api.pc # "panic"
    /\ \A c \in SubscriberIds : chans[c].closed => stopPc = "done"

\* C33: the handler of a received trap first stores the TrapLog, then publishes
\* it, not retained, to <topicPrefix>/traps and calls the onTrap callback, also
\* when storing failed; and it changes neither the MQTT client (the retained
\* bridge status) nor a device's state.
C33_TrapStoredPublishedDelivered ==
    /\ [](traps.pc = "handled" =>
            /\ traps.steps[1] = "Create"
            /\ \E i \in 2..Len(traps.steps) : traps.steps[i] = "onTrap"
            /\ Len(traps.published) = 1
            /\ traps.published[1] = [topic |-> << "snmp-bridge", "traps" >>,
                                     retain |-> FALSE, payload |-> traps.log])
    /\ [][(traps.pc = "received" /\ traps'.pc = "handled")
            => (mqtt' = mqtt /\ states' = states)]_vars

\* C33 for a connected client: the handler of a received trap first stores the
\* TrapLog, then runs the onTrap callback, which publishes it, not retained,
\* to <topicPrefix>/traps exactly when the MQTT client is connected; a failed
\* store prevents neither, and the handler changes neither the MQTT client
\* (the retained bridge status) nor a device's state.
C33_TrapPublishedWhenConnected ==
    /\ [](traps.pc = "handled" =>
            /\ traps.steps[1] = "Create"
            /\ traps.steps[2] = "onTrap"
            /\ traps.published =
                   IF traps.connected
                   THEN << [topic |-> << "snmp-bridge", "traps" >>,
                            retain |-> FALSE, payload |-> traps.log] >>
                   ELSE <<>>)
    /\ [][(traps.pc = "received" /\ traps'.pc = "handled")
            => (mqtt' = mqtt /\ states' = states)]_vars

\* a trap from a configured device was handled with a connected client after
\* a failed store: the callback ran and the TrapLog was published
C33_Witness ==
    /\ traps.pc = "handled"
    /\ traps.connected /\ ~traps.stored
    /\ traps.log.DeviceID # ""
    /\ traps.steps = << "Create", "onTrap", "Publish" >>
    /\ Len(traps.published) = 1

(***************************************************************************)
(* SpecDerive: the derived Active Power of the poller and the fixup of the *)
(* publisher, for values of every dynamic type the poller stores.          *)
(***************************************************************************)
\* a key that the values do not have
Absent == [t |-> "absent", v |-> 0]

\* Active Power: absent, 0.0, 0.7, int 0 and 5, int64 0, uint 5 (a Gauge32
\* without scale), "0", "", "0.0", "abc"
PowerInputs ==
    << Absent, FloatValue(0), FloatValue(700), IntValue(0), IntValue(5),
       [t |-> "int64", v |-> 0], [t |-> "uint", v |-> 5], StrValue(<< "0" >>),
       StrValue(<<>>), StrValue(<< "0", ".", "0" >>), StrValue(<< "a", "b", "c" >>) >>

\* Voltage: absent, 1.5, 0.25, 0.0, int 2 and 0, uint 2, "1.5"
VoltageInputs ==
    << Absent, FloatValue(1500), FloatValue(250), FloatValue(0), IntValue(2),
       IntValue(0), [t |-> "uint", v |-> 2], StrValue(<< "1", ".", "5" >>) >>

\* Total Current: absent, 0.5, 0.1, 0.0, int 1 and 0, uint 1, "0.5"
CurrentInputs ==
    << Absent, FloatValue(500), FloatValue(100), FloatValue(0), IntValue(1),
       IntValue(0), [t |-> "uint", v |-> 1], StrValue(<< "0", ".", "5" >>) >>

InitDerive ==
    \E p \in 1..Len(PowerInputs), v \in 1..Len(VoltageInputs), c \in 1..Len(CurrentInputs) :
        LET given == [k \in { NameKey("Active Power"), NameKey("Voltage"),
                              NameKey("Total Current") } |->
                         IF k = NameKey("Active Power") THEN PowerInputs[p]
                         ELSE IF k = NameKey("Voltage") THEN VoltageInputs[v]
                         ELSE CurrentInputs[c]]
            present == { k \in DOMAIN given : given[k].t # "absent" }
        IN  InitEvery(NoSwitch, NoComp, NoTraps, NoDiscovery, NoCommand,
                      [NoPublish EXCEPT !.pc = "poll",
                                        !.values = [k \in present |-> given[k]]],
                      NoRegistry)

NextDerive == DoPollDerive \/ PublishFixup

SpecDerive == InitDerive /\ [][NextDerive]_vars

\* two values of the same dynamic type and content
SameValue(a, b) == a.t = b.t /\ a.v = b.v

SameValues(a, b) == DOMAIN a = DOMAIN b /\ \A k \in DOMAIN a : SameValue(a[k], b[k])

\* C32: calculateDerivedValues sets Active Power to V * I rounded to one
\* decimal exactly when Active Power is absent or zero and Voltage and Total
\* Current are positive numbers, and changes nothing otherwise; the publisher's
\* fixup gives the same Active Power for the same values, and changes nothing
\* after calculateDerivedValues.
C32_DerivedPower ==
    ps.pc = "fixed" =>
        LET key == NameKey("Active Power")
            number(x) ==
                IF x.t \in {"int", "int64", "uint", "uint64"} THEN [ok |-> TRUE, v |-> 1000 * x.v]
                ELSE IF x.t = "float64" THEN [ok |-> TRUE, v |-> x.v]
                ELSE IF x.t = "str"
                     THEN [ok |-> /\ x.v # <<>>
                                  /\ \A i \in 1..Len(x.v) :
                                        x.v[i] = "." \/ IndexOf(x.v[i], Digits) > 0,
                           v |-> ScanFloat(x.v)]
                ELSE [ok |-> FALSE, v |-> 0]
            power == ValueOf(ps.values, key)
            voltage == number(ValueOf(ps.values, NameKey("Voltage")))
            current == number(ValueOf(ps.values, NameKey("Total Current")))
            derive == /\ key \notin DOMAIN ps.values
                         \/ (number(power).ok /\ number(power).v = 0)
                      /\ voltage.ok /\ voltage.v > 0
                      /\ current.ok /\ current.v > 0
        IN  /\ IF derive
               THEN SameValues(ps.derived,
                               Put(ps.values, key,
                                   FloatValue(100 * Round(voltage.v * current.v, 100000))))
               ELSE SameValues(ps.derived, ps.values)
            /\ (key \in DOMAIN ps.direct) = (key \in DOMAIN ps.derived)
            /\ key \in DOMAIN ps.direct => SameValue(ps.direct[key], ps.derived[key])
            /\ SameValues(ps.fixed, ps.derived)

(***************************************************************************)
(* Publisher.publishState for one event of a transfer switch               *)
(***************************************************************************)
\* the profile of the transfer switch: the two source entities, a select and
\* a sensor that are not about sources, a switch and a binary sensor
SourceProfile ==
    LET mapping(name, component, class, oid) ==
            [Name |-> name, HAComponent |-> component, DeviceClass |-> class,
             OID |-> << Dot, oid >>]
    IN  << mapping(SelectedSource, "select", "", "selected"),
           mapping(PreferredSource, "sensor", "", "preferred"),
           mapping(<< "M", "o", "d", "e" >>, "select", "", "mode"),
           mapping(<< "L", "o", "a", "d" >>, "sensor", "", "load"),
           mapping(OutletName, "switch", "", "outlet1"),
           mapping(<< "S", "t", "a", "t", "u", "s" >>, "binary_sensor", "problem", "status"),
           mapping(<< "S", "u", "p", "p", "l", "y" >>, "binary_sensor", "power", "supply") >>

\* what the device reports for an entity
Reported ==
    << IntValue(1), IntValue(2), IntValue(3), StrValue(<< "S", "o", "u", "r", "c", "e", " ", "A" >>), StrValue(<< "S", "o", "u", "r", "c", "e", " ", "B" >>),
       StrValue(<< "O", "n" >>), StrValue(<< "o", "k" >>) >>

\* what the device reports as the name of a source: a name, or nothing
SourceNames == << StrValue(<< "N", "o", "r", "t", "h" >>), StrValue(<< "S", "o", "u", "t", "h" >>), StrValue(<<>>) >>

\* one event: every entity of a kind reports the same value, under its name or
\* under its OID; each source name is there or not
InitPublish ==
    \E source \in 1..Len(Reported), other \in 1..Len(Reported),
       a \in 0..Len(SourceNames), b \in 0..Len(SourceNames),
       byName \in BOOLEAN, registered \in BOOLEAN :
        LET key(m) == IF byName THEN m.Name ELSE m.OID
            keys == { key(SourceProfile[i]) : i \in 1..Len(SourceProfile) }
            entities == [k \in keys |->
                           IF k \in { key(SourceProfile[1]), key(SourceProfile[2]) }
                           THEN Reported[source] ELSE Reported[other]]
            withA == IF a = 0 THEN entities
                     ELSE Put(entities, SourceAName, SourceNames[a])
            withB == IF b = 0 THEN withA
                     ELSE Put(withA, SourceBName, SourceNames[b])
        IN  InitEvery(NoSwitch, NoComp, NoTraps, NoDiscovery, NoCommand,
                      [NoPublish EXCEPT !.pc = "ready", !.registered = registered,
                                        !.mappings = SourceProfile,
                                        !.values = withB],
                      NoRegistry)

NextPublish == \E connected \in BOOLEAN : publishState(connected)

SpecPublish == InitPublish /\ [][NextPublish]_vars

\* the mapping an entity state message is about
MappingOf(message) ==
    CHOOSE m \in { SourceProfile[i] : i \in 1..Len(SourceProfile) } :
        sanitizeEntityID(m.Name) = message.topic[3]

\* the value the mapping's component gives its entity in the event
OwnValue(m) == Sprintf(componentValue(m, entityValue(ps.aggregate, m)))

\* C31: publishState puts a source name in place of the value only for a
\* select entity named Preferred Source or Selected Source, and only when the
\* event has both Source A Name and Source B Name: "Source A" or "1" becomes
\* the name of source A, "Source B" or "2" the name of source B; every other
\* entity is published with the value its component gives it
C31_SourceNamesOnlyForSourceSelects ==
    \A j \in 1..Len(ps.published) :
        LET message == ps.published[j]
            m == MappingOf(message)
        IN  IF /\ m.HAComponent = "select"
               /\ m.Name \in { SelectedSource, PreferredSource }
               /\ SourceAName \in DOMAIN ps.aggregate
               /\ SourceBName \in DOMAIN ps.aggregate
            THEN message.payload =
                     IF OwnValue(m) \in { << "S", "o", "u", "r", "c", "e", " ", "A" >>, << "1" >> }
                     THEN Sprintf(ps.aggregate[SourceAName])
                     ELSE IF OwnValue(m) \in { << "S", "o", "u", "r", "c", "e", " ", "B" >>, << "2" >> }
                     THEN Sprintf(ps.aggregate[SourceBName])
                     ELSE OwnValue(m)
            ELSE message.payload = OwnValue(m)

\* a select entity that is not about sources was published with the name of
\* source A because the device reported 1 for it
C31_OtherSelectRenamed ==
    /\ ps.pc = "returned" /\ ps.hasSources
    /\ \E j \in 1..Len(ps.published) :
          /\ MappingOf(ps.published[j]).Name = << "M", "o", "d", "e" >>
          /\ OwnValue(MappingOf(ps.published[j])) = << "1" >>
          /\ ps.published[j].payload = Sprintf(ps.aggregate[SourceAName])
          /\ ps.published[j].payload # << "1" >>

\* C40: for a device whose profile has no Active Power mapping, every event a
\* poll cycle emits has either no Active Power or the Active Power that is
\* Voltage * Total Current of that same event, rounded to one decimal
C40_DerivedPowerFollowsEvent ==
    \A p \in PollerIds :
        (pollers[p].pc = "emitlock" /\ pollers[p].profile = 3)
            => LET values == pollers[p].ev.Values
                   key == NameKey("Active Power")
               IN  key \in DOMAIN values
                       => /\ NameKey("Voltage") \in DOMAIN values
                          /\ NameKey("Total Current") \in DOMAIN values
                          /\ values[key] = values[NameKey("Voltage")]
                                               * values[NameKey("Total Current")]

\* C39: whenever the bridge has no live MQTT session, after Disconnect, after
\* a lost connection or after Reconnect, the retained bridge status it set to
\* online is offline, and IsConnected() (c.connected) is false
C39_StatusTruthful ==
    ~LinkUp(mqtt) => (mqtt.status # "online" /\ ~mqtt.connected)

(***************************************************************************)
(* SpecRegistry: main connects the MQTT Client and registers the enabled   *)
(* device with the publisher; then the API creates, updates and deletes    *)
(* the device while the connection is lost, re-established and replaced.   *)
(***************************************************************************)
RegCfgs == [version : {"v2c"}, profile : {0, 1}, enabled : BOOLEAN]

InitRegistry ==
    \E cfg \in { c \in RegCfgs : c.enabled } :
        StartedEvery("d1", cfg, << >>, NewMqtt, RegistryAtStart({"d1"}))

NextRegistry ==
    \/ MqttConnect
    \/ reg.pc = "serve" /\ MqttReconnect
    \/ MqttLost
    \/ \E g \in MqttIds : MqttAutoReconnect(g)
    \/ \E g \in MqttIds : OnConnectOnline(g)
    \/ \E g \in MqttIds, d \in DeviceIds : OnConnectResubscribe(g, d)
    \/ \E g \in MqttIds : OnConnectDone(g)
    \/ \E d \in DeviceIds, found \in BOOLEAN : RegisterDevice(d, found)
    \/ reg.pc = "serve" /\ ApiStep(RegCfgs)

SpecRegistry == InitRegistry /\ [][NextRegistry]_vars

\* the library runs the OnConnect handlers and reconnects after a loss; main
\* goes through its loop
FairRegistry ==
    /\ SpecRegistry
    /\ WF_vars(MqttConnect)
    /\ \A g \in MqttIds : WF_vars(MqttAutoReconnect(g))
    /\ \A g \in MqttIds : WF_vars(OnConnectOnline(g))
    /\ \A g \in MqttIds : WF_vars(\E d \in DeviceIds : OnConnectResubscribe(g, d))
    /\ \A g \in MqttIds : WF_vars(OnConnectDone(g))
    /\ WF_vars(\E d \in DeviceIds, found \in BOOLEAN : RegisterDevice(d, found))

\* C37: once main has registered the devices and no API request is running,
\* the ids registered with the publisher are the ids of the poller's device
\* table, whatever create, update and delete requests were handled
C37_RegistryFollowsPoller ==
    (reg.pc = "serve" /\ api.pc = "idle")
        => reg.devices = { d \in DeviceIds : devices[d] # 0 }

\* C38: for a device registered with the publisher with a profile, once a
\* connection to the broker is established its discovery documents are
\* eventually published, also when RegisterDevice ran without connection
C38_DiscoveryEventuallyPublished ==
    \A d \in DeviceIds :
        (d \in reg.profile /\ LinkUp(mqtt) /\ mqtt.connected) ~> (d \in reg.discovery)

\* C34: no task is left holding the device-table lock, so that nobody waits for
\* it forever, and when Stop returns every poll loop has exited and no poll
\* cycle is running
C34_StopReturnsAfterLoops ==
    /\ [](api.pc = "panic" => FALSE)
    /\ [][(stopPc # "done" /\ stopPc' = "done")
            => \A p \in PollerIds : ~Active(p) /\ ~InCycle(p)]_vars
====
